---- MODULE Spec2Model ----
(***************************************************************************)
(* Model of duohub-ai/integration-agent: the documentation URL classifier, *)
(* the two relevance scorers, the SearchResult record, the two rankers     *)
(* (_find_documentation of agent/agent.py and of agent/tools/search.py)    *)
(* and the create_integration pipeline.                                    *)
(*                                                                         *)
(* Python str values are sequences of characters; a character is a one     *)
(* letter TLA+ string, or the name of its code point when it is not ASCII. *)
(* Python float values are IEEE-754 doubles, kept exactly as two limbs.    *)
(***************************************************************************)
EXTENDS Integers, Sequences, FiniteSets, TLC

\* ------------------------------------------------------------------------
\* Model bounds
\* ------------------------------------------------------------------------

\* Longest content of a raw hit handed to a scorer, in text fragments.
MaxFragments == 3

\* Longest URL handed to the URL classifier on its own, in characters.
MaxUrlLen == 4

\* Most raw hits the search capability returns for one query.
MaxHits == 2

\* The largest number of top-level blocks of a parsed page.
MaxBlocks == 2

\* How often one extraction routine is run on the same parsed page.
MaxRuns == 2

\* How many SearchConfig objects are built.
MaxConfigs == 2

\* How many list objects the caller creates itself.
MaxCallerLists == 1

\* How many words an action description is made of.
MaxWords == 3

\* How many data rows a spreadsheet has.
MaxRows == 3

\* ------------------------------------------------------------------------
\* str: characters, str.lower, str.upper, the `in` operator
\* ------------------------------------------------------------------------

UpperAlpha == <<"A","B","C","D","E","F","G","H","I","J","K","L","M","N","O","P","Q","R","S","T","U","V","W","X","Y","Z">>

LowerAlpha == <<"a","b","c","d","e","f","g","h","i","j","k","l","m","n","o","p","q","r","s","t","u","v","w","x","y","z">>

\* LATIN SMALL LETTER DOTLESS I: a lower-case letter whose upper case is "I".
DotlessI == "U+0131"

\* LATIN SMALL LETTER LONG S: a lower-case letter whose upper case is "S".
LongS == "U+017F"

Punctuation == {".", "/", " ", ":", "-", "_", "\t", "\n", "{", "}", "=", "<", ">", "!"}

Digits == {"0", "2"}

Chars ==
    {UpperAlpha[i] : i \in 1..26} \cup {LowerAlpha[i] : i \in 1..26} \cup {DotlessI, LongS}
        \cup Punctuation \cup Digits

\* str.lower() on one character (Unicode simple lower-case mapping).
LowerChar(c) ==
    IF \E i \in 1..26 : UpperAlpha[i] = c
    THEN LowerAlpha[CHOOSE i \in 1..26 : UpperAlpha[i] = c]
    ELSE c

\* str.upper() on one character (Unicode upper-case mapping).
UpperChar(c) ==
    IF \E i \in 1..26 : LowerAlpha[i] = c
    THEN UpperAlpha[CHOOSE i \in 1..26 : LowerAlpha[i] = c]
    ELSE IF c = DotlessI THEN "I"
    ELSE IF c = LongS THEN "S"
    ELSE c

LowerTable == [c \in Chars |-> LowerChar(c)]

UpperTable == [c \in Chars |-> UpperChar(c)]

\* s.lower()
Lower(s) == [i \in 1..Len(s) |-> LowerTable[s[i]]]

\* s.upper()
Upper(s) == [i \in 1..Len(s) |-> UpperTable[s[i]]]

\* t in s: t occurs in s as a substring (the empty string occurs in every s).
Contains(s, t) ==
    \E i \in 1..(Len(s) - Len(t) + 1) : \A j \in 1..Len(t) : s[i + j - 1] = t[j]

\* Sequences over S of length at most n.
SeqUpTo(S, n) == UNION {[1..k -> S] : k \in 0..n}

\* ------------------------------------------------------------------------
\* float: IEEE-754 binary64, round to nearest, ties to even.
\* A finite double v with |v| < 4 that is a multiple of 2^-57 is the pair
\* <<hi, lo>> with v = (hi * 2^29 + lo) * 2^-57 and 0 <= lo < 2^29.
\* ------------------------------------------------------------------------

Limb == 2^29

F00 == <<0, 0>>                     \* 0.0

F005 == <<13421772, 429496730>>     \* 0.05

F01 == <<26843545, 322122548>>      \* 0.1

F02 == <<53687091, 107374184>>      \* 0.2

F04 == <<107374182, 214748368>>     \* 0.4

F06 == <<161061273, 322122544>>     \* 0.6

F10 == <<2^28, 0>>                  \* 1.0

FLt(x, y) == x[1] < y[1] \/ (x[1] = y[1] /\ x[2] < y[2])

FLe(x, y) == x = y \/ FLt(x, y)

\* Spacing of the doubles around the value whose high limb is hi, in 2^-57.
Ulp(hi) ==
    IF hi >= 2^29 THEN 64
    ELSE IF hi >= 2^28 THEN 32
    ELSE IF hi >= 2^27 THEN 16
    ELSE IF hi >= 2^26 THEN 8
    ELSE IF hi >= 2^25 THEN 4
    ELSE IF hi >= 2^24 THEN 2
    ELSE 1

\* The double nearest to the exact value <<hi, lo>> (ties to even).
RoundFloat(hi, lo) ==
    LET u    == Ulp(hi)
        r    == lo % u
        down == lo - r
        up   == 2 * r > u \/ (2 * r = u /\ (down \div u) % 2 = 1)
        l    == IF up THEN down + u ELSE down
    IN  IF l >= Limb THEN <<hi + 1, l - Limb>> ELSE <<hi, l>>

\* x + y on non-negative doubles.
FAdd(x, y) ==
    LET l == x[2] + y[2]
        h == x[1] + y[1] + (l \div Limb)
    IN  RoundFloat(h, l % Limb)

\* min(x, y) of Python: y only when y < x.
FMin(x, y) == IF FLt(y, x) THEN y ELSE x

\* x - y on doubles with 0 <= y <= x.
FSub(x, y) ==
    LET b == IF x[2] < y[2] THEN 1 ELSE 0
    IN  RoundFloat(x[1] - y[1] - b, x[2] - y[2] + b * Limb)

\* ------------------------------------------------------------------------
\* Optional values and dict lookups
\* ------------------------------------------------------------------------

\* An Optional[T] is <<>> for None and <<v>> for the value v.
Some(v) == <<v>>

\* d.get(k, default) on a dict d.
Get(d, k, default) == IF k \in DOMAIN d THEN d[k] ELSE default

\* ------------------------------------------------------------------------
\* The URL classifier
\* ------------------------------------------------------------------------

\* doc_indicators of IntegrationAgent._is_documentation_url (agent.py, and
\* the copy in search.py).
DocIndicators ==
    { <<"d","o","c","s",".">>,
      <<"d","e","v","e","l","o","p","e","r",".">>,
      <<"a","p","i",".">>,
      <<"d","e","v","e","l","o","p","e","r","s",".">> }

\* doc_indicators of EnhancedSearchTool._is_documentation_url.
EnhancedDocIndicators ==
    DocIndicators \cup
    { <<"d","o","c","u","m","e","n","t","a","t","i","o","n",".">>,
      <<"/","d","o","c","s","/">>,
      <<"/","a","p","i","/">>,
      <<"/","d","e","v","e","l","o","p","e","r","/">> }

\* IntegrationAgent._is_documentation_url(url)
IsDocumentationUrl(url) ==
    \E indicator \in DocIndicators : Contains(Lower(url), indicator)

\* EnhancedSearchTool._is_documentation_url(url)
EnhancedIsDocumentationUrl(url) ==
    \E indicator \in EnhancedDocIndicators : Contains(Lower(url), indicator)

\* ------------------------------------------------------------------------
\* The basic scorer: IntegrationAgent._calculate_relevance
\* ------------------------------------------------------------------------

W_api == <<"a","p","i">>

W_integration == <<"i","n","t","e","g","r","a","t","i","o","n">>

W_documentation == <<"d","o","c","u","m","e","n","t","a","t","i","o","n">>

W_guide == <<"g","u","i","d","e">>

W_reference == <<"r","e","f","e","r","e","n","c","e">>

\* The list `keywords` built for a request.
Keywords(request) ==
    << Lower(request.service_name), Lower(request.integration_type),
       W_api, W_integration, W_documentation, W_guide, W_reference >>

\* The loop `for keyword in keywords`: entries i..Len(keywords), in order.
RECURSIVE KeywordPass(_, _, _, _)
KeywordPass(relevance, keywords, i, content) ==
    IF i > Len(keywords) THEN relevance
    ELSE KeywordPass(IF Contains(content, keywords[i]) THEN FAdd(relevance, F01) ELSE relevance,
                     keywords, i + 1, content)

\* The scorer with the test of the URL inverted: the 0.4 goes to the hits
\* whose URL is not classified as documentation.
RawRelevanceInverted(result, request) ==
    LET content == Lower(result.content)
        base    == IF IsDocumentationUrl(result.url) THEN F00 ELSE FAdd(F00, F04)
    IN  KeywordPass(base, Keywords(request), 1, content)

\* `relevance` just before `return min(relevance, 1.0)`.
RawRelevance(result, request) ==
    LET content == Lower(result.content)
        base    == IF IsDocumentationUrl(result.url) THEN FAdd(F00, F04) ELSE F00
    IN  KeywordPass(base, Keywords(request), 1, content)

\* The scorer without its final min(): every addition is returned as it is.
CalculateRelevanceUnclamped(result, request) == RawRelevance(result, request)

\* IntegrationAgent._calculate_relevance(result, request)
CalculateRelevance(result, request) == FMin(RawRelevance(result, request), F10)

\* ------------------------------------------------------------------------
\* The richer scorer: EnhancedSearchTool._calculate_relevance
\* ------------------------------------------------------------------------

W_api_reference == <<"a","p","i"," ","r","e","f","e","r","e","n","c","e">>

W_developer_guide == <<"d","e","v","e","l","o","p","e","r"," ","g","u","i","d","e">>

W_example == <<"e","x","a","m","p","l","e">>

W_tutorial == <<"t","u","t","o","r","i","a","l">>

\* The loop `for keyword in context.get("keywords", [])`.
RECURSIVE ContextKeywordPass(_, _, _, _)
ContextKeywordPass(score, keywords, i, content) ==
    IF i > Len(keywords) THEN score
    ELSE ContextKeywordPass(IF Contains(content, Lower(keywords[i])) THEN FAdd(score, F005) ELSE score,
                            keywords, i + 1, content)

\* EnhancedSearchTool._context_based_score(result, context)
ContextBasedScore(result, context) ==
    LET content == Lower(Get(result, "content", <<>>))
        s1 == IF Contains(content, Lower(Get(context, "service_name", <<>>)))
              THEN FAdd(F00, F02) ELSE F00
        s2 == IF Contains(content, Lower(Get(context, "integration_type", <<>>)))
              THEN FAdd(s1, F01) ELSE s1
    IN  ContextKeywordPass(s2, Get(context, "keywords", <<>>), 1, content)

\* `if context:` -- None and the empty dict are false.
Truthy(context) == context # <<>> /\ DOMAIN context[1] # {}

\* `score` just before `return min(score, 1.0)`.
EnhancedRawRelevance(result, context) ==
    LET s0 == IF EnhancedIsDocumentationUrl(Get(result, "url", <<>>)) THEN FAdd(F00, F04) ELSE F00
        s1 == IF Truthy(context) THEN FAdd(s0, ContextBasedScore(result, context[1])) ELSE s0
        content == Lower(Get(result, "content", <<>>))
        s2 == IF Contains(content, W_api_reference) \/ Contains(content, W_developer_guide)
              THEN FAdd(s1, F02) ELSE s1
    IN  IF Contains(content, W_example) \/ Contains(content, W_tutorial)
        THEN FAdd(s2, F01) ELSE s2

\* EnhancedSearchTool._calculate_relevance(result, context)
EnhancedCalculateRelevance(result, context) == FMin(EnhancedRawRelevance(result, context), F10)

\* ------------------------------------------------------------------------
\* State
\* ------------------------------------------------------------------------

VARIABLES
    \* Direct calls of the two scorers on hits that differ in their URL only:
    scorer,      \* "basic" (agent.py), "enhanced" (search.py), "none"
    request,     \* Optional IntegrationRequest of the basic scorer's calls
    context,     \* Optional context dict of the richer scorer's calls
    content,     \* result["content"] of the calls
    scored       \* the calls made: records [url, score]

scoreVars == <<scorer, request, context, content, scored>>

VARIABLES
    \* Direct calls of a URL classifier on a string and on its upper case:
    classifier,  \* "agent" (IntegrationAgent), "enhanced" (EnhancedSearchTool), "none"
    rawUrl,      \* the string u
    verdicts     \* the calls made: records [upper, verdict]

classifyVars == <<classifier, rawUrl, verdicts>>

VARIABLES
    \* Direct construction of SearchResult records:
    built        \* Optional SearchResult: the record the last constructor call returned

dataVars == <<built>>

VARIABLES
    \* Direct calls of the DocumentationParser's extraction routines:
    page,        \* Optional: the parsed document (soup), or the code container
                 \* _detect_language is called on
    called,      \* Optional: the last call, [op, returned, raised]
    earlier      \* per extraction routine, what its calls on the page returned,
                 \* in order

parseVars == <<page, called, earlier>>

VARIABLES
    \* One call of create_integration(request), on the IntegrationAgent of
    \* agent.py or on the one of search.py (`request` above is its argument):
    impl,        \* "agent" (agent.py), "search" (search.py), "none"
    pc,          \* where the call stands: "search", "search_wait", "llm",
                 \* "llm_wait", "save", "done" ("idle": no call)
    qi,          \* index of the query of the ranker's loop
    stage,       \* index of the language-model call, in LlmStages
    calls,       \* the external calls issued so far, in order
    raw,         \* the search responses received so far (names of hits), per query
    failed,      \* the queries whose search call raised
    results,     \* the ranker's frame: its accumulator `results`
    ranker,      \* _find_documentation: "idle", "running", "returned", "raised"
    ranked,      \* Optional: `search_results`, the list the ranker returned
    texts,       \* the language-model answers received so far, in order
    integration, \* Optional: the local `integration` of create_integration
    files,       \* the files written to disk by save_integration, in order
    result,      \* Optional: the dict create_integration returned
    raised       \* Optional: the exception create_integration let through

pipeVars == <<impl, pc, qi, stage, calls, raw, failed, results, ranker, ranked,
              texts, integration, files, result, raised>>

VARIABLES
    \* SearchConfig objects and the list objects they refer to:
    heap,        \* the list objects created so far: heap[id] is the list's content
    configs      \* the SearchConfig objects created so far: the ids of their
                 \* include_domains and exclude_domains lists, and the arguments
                 \* they were built with

configVars == <<heap, configs>>

VARIABLES
    \* Direct calls of _generate_action_path:
    actionDescription,  \* Optional: the description handed in
    actionPath          \* Optional: the directory name returned

pathVars == <<actionDescription, actionPath>>

VARIABLES
    \* One batch run over a spreadsheet (examples/detect_integration_types.py
    \* or examples/create_integrations_sheets.py):
    job,         \* "types", "create" ("none": no run)
    sheet,       \* the data rows fetched from the sheet (the rows after the
                 \* header), each a list of cells; row k has row number k + 1
    todo,        \* the row numbers the run selected, in the order of the loop
    cursor,      \* index in todo of the row the loop stands at
    step,        \* the call the loop body stands before ("done": loop over)
    events       \* the calls made and how they ended: <<call, row number, outcome>>

batchVars == <<job, sheet, todo, cursor, step, events>>

\* The state of the clients that are not running.
restVars == <<configVars, pathVars, batchVars>>

vars == <<scoreVars, classifyVars, dataVars, parseVars, pipeVars, restVars>>

\* ------------------------------------------------------------------------
\* Inputs of the scorers
\* ------------------------------------------------------------------------

\* Text fragments a hit's content is made of.
T_reference == <<"A","P","I"," ","r","e","f","e","r","e","n","c","e">>

T_guide == <<"d","e","v","e","l","o","p","e","r"," ","g","u","i","d","e">>

T_documentation == <<"i","n","t","e","g","r","a","t","i","o","n"," ","d","o","c","u","m","e","n","t","a","t","i","o","n">>

T_example == <<"A","c","m","e"," ","R","E","S","T"," ","e","x","a","m","p","l","e">>

Fragments == {T_reference, T_guide, T_documentation, T_example}

\* The fragments of fs, separated by one space.
RECURSIVE JoinFragments(_)
JoinFragments(fs) ==
    IF Len(fs) = 0 THEN <<>>
    ELSE IF Len(fs) = 1 THEN fs[1]
    ELSE fs[1] \o <<" ">> \o JoinFragments(Tail(fs))

Contents == {JoinFragments(fs) : fs \in SeqUpTo(Fragments, MaxFragments)}

U_docs == <<"d","o","c","s",".","a","c","m","e",".","i","o">>

U_path == <<"a","c","m","e",".","i","o","/","d","o","c","s","/">>

U_plain == <<"a","c","m","e",".","i","o">>

U_API == <<"A","P","I",".","a","c","m","e",".","i","o">>

ScoreUrls == {U_docs, U_path, U_plain, U_API}

N_Acme == <<"A","c","m","e">>

N_ACME == <<"A","C","M","E">>

N_API == <<"A","P","I">>

N_REST == <<"R","E","S","T">>

N_Guide == <<"G","u","i","d","e">>

N_rest == <<"r","e","s","t">>

\* IntegrationRequest(service_name, integration_type, ...): the two fields
\* the scorers and the rankers read.
Requests ==
    [service_name : {N_Acme, N_API}, integration_type : {N_REST, W_api, N_ACME}]

\* The context argument of EnhancedSearchTool.search: None, the empty dict,
\* and dicts holding all, some or none of service_name, integration_type,
\* keywords.
Contexts ==
    { <<>>,
      Some(<<>>),
      Some([service_name |-> N_Acme, integration_type |-> N_REST, keywords |-> <<>>]),
      Some([service_name |-> N_Acme, integration_type |-> N_REST, keywords |-> <<N_Guide, N_rest>>]),
      Some([service_name |-> N_API, integration_type |-> N_ACME]),
      Some([keywords |-> <<N_Guide>>]),
      Some([language |-> N_REST]) }

\* ------------------------------------------------------------------------
\* SpecScore: a client calls one of the scorers on hits of one content
\* ------------------------------------------------------------------------

ScoreIdle ==
    /\ scorer = "none"
    /\ request = <<>>
    /\ context = <<>>
    /\ content = <<>>
    /\ scored = {}

ClassifyIdle ==
    /\ classifier = "none"
    /\ rawUrl = <<>>
    /\ verdicts = {}

DataIdle == built = <<>>

ConfigIdle == heap = <<>> /\ configs = <<>>

PathIdle == actionDescription = <<>> /\ actionPath = <<>>

BatchIdle ==
    /\ job = "none"
    /\ sheet = <<>>
    /\ todo = <<>>
    /\ cursor = 0
    /\ step = "done"
    /\ events = <<>>

RestIdle == ConfigIdle /\ PathIdle /\ BatchIdle

ParseIdle == page = <<>> /\ called = <<>> /\ earlier = <<>>

PipeIdle ==
    /\ impl = "none"
    /\ pc = "idle"
    /\ qi = 0
    /\ stage = 0
    /\ calls = <<>>
    /\ raw = <<>>
    /\ failed = {}
    /\ results = <<>>
    /\ ranker = "idle"
    /\ ranked = <<>>
    /\ texts = <<>>
    /\ integration = <<>>
    /\ files = <<>>
    /\ result = <<>>
    /\ raised = <<>>

InitScore ==
    /\ ClassifyIdle
    /\ DataIdle
    /\ RestIdle
    /\ ParseIdle
    /\ PipeIdle
    /\ content \in Contents
    /\ scored = {}
    /\ \/ scorer = "basic" /\ request \in {Some(r) : r \in Requests} /\ context = <<>>
       \/ scorer = "enhanced" /\ request = <<>> /\ context \in Contexts

\* agent._calculate_relevance({"url": url, "content": content}, request)
CallCalculateRelevance(url) ==
    /\ scorer = "basic"
    /\ \A c \in scored : c.url # url
    /\ scored' = scored \cup
         {[url |-> url,
           score |-> CalculateRelevance([url |-> url, content |-> content], request[1])]}
    /\ UNCHANGED <<scorer, request, context, content, classifyVars, dataVars, parseVars, pipeVars, restVars>>

\* tool._calculate_relevance({"url": url, "content": content}, context)
CallEnhancedCalculateRelevance(url) ==
    /\ scorer = "enhanced"
    /\ \A c \in scored : c.url # url
    /\ scored' = scored \cup
         {[url |-> url,
           score |-> EnhancedCalculateRelevance([url |-> url, content |-> content], context)]}
    /\ UNCHANGED <<scorer, request, context, content, classifyVars, dataVars, parseVars, pipeVars, restVars>>

NextScore ==
    \/ \E url \in ScoreUrls : CallCalculateRelevance(url)
    \/ \E url \in ScoreUrls : CallEnhancedCalculateRelevance(url)

SpecScore == InitScore /\ [][NextScore]_vars

\* ------------------------------------------------------------------------
\* SpecClassify: a client calls a URL classifier on u and on u.upper()
\* ------------------------------------------------------------------------

UrlAlphabet == {"a", "p", "i", "P", ".", "/", DotlessI}

UrlStrings == SeqUpTo(UrlAlphabet, MaxUrlLen)

InitClassify ==
    /\ ScoreIdle
    /\ DataIdle
    /\ RestIdle
    /\ ParseIdle
    /\ PipeIdle
    /\ classifier \in {"agent", "enhanced"}
    /\ rawUrl \in UrlStrings
    /\ verdicts = {}

\* IntegrationAgent._is_documentation_url(u), or (u.upper()) when upper.
CallIsDocumentationUrl(upper) ==
    /\ classifier = "agent"
    /\ \A v \in verdicts : v.upper # upper
    /\ verdicts' = verdicts \cup
         {[upper |-> upper, verdict |-> IsDocumentationUrl(IF upper THEN Upper(rawUrl) ELSE rawUrl)]}
    /\ UNCHANGED <<classifier, rawUrl, scoreVars, dataVars, parseVars, pipeVars, restVars>>

\* EnhancedSearchTool._is_documentation_url(u), or (u.upper()) when upper.
CallEnhancedIsDocumentationUrl(upper) ==
    /\ classifier = "enhanced"
    /\ \A v \in verdicts : v.upper # upper
    /\ verdicts' = verdicts \cup
         {[upper |-> upper, verdict |-> EnhancedIsDocumentationUrl(IF upper THEN Upper(rawUrl) ELSE rawUrl)]}
    /\ UNCHANGED <<classifier, rawUrl, scoreVars, dataVars, parseVars, pipeVars, restVars>>

NextClassify ==
    \/ \E upper \in BOOLEAN : CallIsDocumentationUrl(upper)
    \/ \E upper \in BOOLEAN : CallEnhancedIsDocumentationUrl(upper)

SpecClassify == InitClassify /\ [][NextClassify]_vars

\* ------------------------------------------------------------------------
\* SpecData: a client constructs the data classes directly
\* ------------------------------------------------------------------------

\* Floats a caller may pass as relevance_score: -0.5, 0.0, 0.6, 1.0,
\* 1.0999999999999999 (seven keywords and the base, unclamped) and 1.5.
ScoreArguments ==
    { <<0 - 2^27, 0>>, F00, F06, F10, <<295279001, 322122528>>, <<2^28 + 2^27, 0>> }

\* The SearchResult data class (agent.py and search.py declare the same
\* one): the generated __init__ stores its four arguments.
SearchResult(module, u, c, is_documentation, relevance_score) ==
    [module |-> module, url |-> u, content |-> c,
     is_documentation |-> is_documentation, relevance_score |-> relevance_score]

InitData ==
    /\ ScoreIdle
    /\ ClassifyIdle
    /\ ParseIdle
    /\ PipeIdle
    /\ RestIdle
    /\ built = <<>>

\* SearchResult(url=u, content=c, is_documentation=d, relevance_score=s)
ConstructSearchResult(module, u, c, d, s) ==
    /\ built' = Some(SearchResult(module, u, c, d, s))
    /\ UNCHANGED <<scoreVars, classifyVars, parseVars, pipeVars, restVars>>

NextData ==
    \E module \in {"agent", "search"}, u \in ScoreUrls, c \in Fragments \cup {<<>>},
       d \in BOOLEAN, s \in ScoreArguments :
        ConstructSearchResult(module, u, c, d, s)

SpecData == InitData /\ [][NextData]_vars

\* ------------------------------------------------------------------------
\* The rankers: _find_documentation of agent.py and of search.py
\* ------------------------------------------------------------------------

Q_documentation == <<" ","d","o","c","u","m","e","n","t","a","t","i","o","n">>

Q_api_reference == <<" ","A","P","I"," ","r","e","f","e","r","e","n","c","e"," ">>

Q_developer_guides == <<" ","d","e","v","e","l","o","p","e","r"," ","g","u","i","d","e","s"," ">>

\* The list `search_queries` built for a request.
SearchQueries(r) ==
    << r.service_name \o <<" ">> \o r.integration_type \o Q_documentation,
       r.service_name \o Q_api_reference \o r.integration_type,
       r.service_name \o Q_developer_guides \o r.integration_type >>

\* The raw hits the search capability may return, by name:
\* {"url": ..., "content": ...}.
Hit ==
    [n \in {"A", "B", "C"} |->
        CASE n = "A" -> [url |-> U_docs, content |-> <<"A","P","I"," ","r","e","f","e","r","e","n","c","e"," ","g","u","i","d","e">>]
          [] n = "B" -> [url |-> U_plain, content |-> <<"A","P","I"," ","i","n","t","e","g","r","a","t","i","o","n"," ","g","u","i","d","e"," ","r","e","f","e","r","e","n","c","e">>]
          [] OTHER   -> [url |-> U_API, content |-> <<"R","E","S","T"," ","A","P","I"," ","r","e","f","e","r","e","n","c","e">>]]

\* What one search call may answer: up to MaxHits different hits, given by
\* their names (the same hit may come back from several queries).
Responses ==
    {s \in SeqUpTo(DOMAIN Hit, MaxHits) : \A i, j \in 1..Len(s) : s[i] = s[j] => i = j}

\* The list of raw hits of a response.
HitsOf(response) == [i \in 1..Len(response) |-> Hit[response[i]]]

\* The requests create_integration is called with.
PipelineRequests ==
    { [service_name |-> N_Acme, integration_type |-> N_REST],
      [service_name |-> N_API, integration_type |-> W_api] }

\* `relevance >= 0.6`: the threshold test with the boundary let in.
AboveThresholdInclusive(relevance) == FLe(F06, relevance)

\* `relevance > 0.6`
AboveThreshold(relevance) == FLt(F06, relevance)

\* x put into the list s, sorted by descending relevance_score, before the
\* entries of the same score.
RECURSIVE InsertBeforeEqual(_, _)
InsertBeforeEqual(s, x) ==
    IF s = <<>> THEN <<x>>
    ELSE IF FLe(Head(s).relevance_score, x.relevance_score) THEN <<x>> \o s
    ELSE <<Head(s)>> \o InsertBeforeEqual(Tail(s), x)

\* x put into the list s, sorted by descending relevance_score, behind the
\* entries of the same score.
RECURSIVE InsertDescending(_, _)
InsertDescending(s, x) ==
    IF s = <<>> THEN <<x>>
    ELSE IF FLt(Head(s).relevance_score, x.relevance_score) THEN <<x>> \o s
    ELSE <<Head(s)>> \o InsertDescending(Tail(s), x)

RECURSIVE SortInto(_, _, _)
SortInto(acc, list, i) ==
    IF i > Len(list) THEN acc ELSE SortInto(InsertDescending(acc, list[i]), list, i + 1)

\* A sort by descending score that reverses the entries of equal score.
RECURSIVE SortIntoUnstable(_, _, _)
SortIntoUnstable(acc, list, i) ==
    IF i > Len(list) THEN acc ELSE SortIntoUnstable(InsertBeforeEqual(acc, list[i]), list, i + 1)

SortedUnstable(list) == SortIntoUnstable(<<>>, list, 1)

\* sorted(list, key=lambda x: x.relevance_score, reverse=True): Python's
\* sort is stable, also with reverse=True.
SortedDescending(list) == SortInto(<<>>, list, 1)

\* The loop body of the ranker of agent.py with is_documentation computed
\* from the hit's content instead of its URL.
RECURSIVE ProcessResponseClassifiesContent(_, _, _)
ProcessResponseClassifiesContent(search_response, i, r) ==
    IF i > Len(search_response) THEN <<>>
    ELSE LET res       == search_response[i]
             relevance == CalculateRelevance(res, r)
         IN  (IF AboveThreshold(relevance)
              THEN <<SearchResult("agent", res.url, res.content,
                                  IsDocumentationUrl(res.content), relevance)>>
              ELSE <<>>) \o ProcessResponseClassifiesContent(search_response, i + 1, r)

\* agent.py, `for result in search_response:` -- the SearchResults appended
\* to `results` for the hits i..Len(search_response) of one response.
RECURSIVE ProcessResponse(_, _, _)
ProcessResponse(search_response, i, r) ==
    IF i > Len(search_response) THEN <<>>
    ELSE LET res       == search_response[i]
             relevance == CalculateRelevance(res, r)
         IN  (IF AboveThreshold(relevance)
              THEN <<SearchResult("agent", res.url, res.content,
                                  IsDocumentationUrl(res.url), relevance)>>
              ELSE <<>>) \o ProcessResponse(search_response, i + 1, r)

\* EnhancedSearchTool._process_results(results, context): every hit with
\* is_documentation and relevance_score added, sorted by descending score.
ProcessResults(raw_results, ctx) ==
    SortedDescending(
        [i \in 1..Len(raw_results) |->
            [is_documentation |-> EnhancedIsDocumentationUrl(Get(raw_results[i], "url", <<>>)),
             relevance_score |-> EnhancedCalculateRelevance(raw_results[i], ctx)]
            @@ raw_results[i]])

\* search.py, `for result in search_response:` -- the processed hits turned
\* into SearchResult records.
ConvertResponse(search_response) ==
    [i \in 1..Len(search_response) |->
        SearchResult("search", search_response[i].url, search_response[i].content,
                     search_response[i].is_documentation, search_response[i].relevance_score)]

\* ProcessResponse and ConvertResponse(ProcessResults(...)) are functions of
\* the response (and the request) alone; they are tabulated once.
AgentProcessed ==
    [r \in PipelineRequests |-> [resp \in Responses |-> ProcessResponse(HitsOf(resp), 1, r)]]

EnhancedProcessed ==
    [resp \in Responses |-> ConvertResponse(ProcessResults(HitsOf(resp), <<>>))]

\* ------------------------------------------------------------------------
\* create_integration
\* ------------------------------------------------------------------------

\* The language-model calls of create_integration, in order: agent.py makes
\* one for the analysis and three in _generate_integration, search.py one
\* for the analysis and one in _generate_integration.
LlmStages(i) ==
    IF i = "agent" THEN <<"analysis", "code", "readme", "pyproject">>
    ELSE <<"analysis", "generation">>

\* response.content of a language-model call: free text, opaque here.
LlmText(kind) == <<"text", kind>>

\* The keys of integration["files"], in insertion order.
FileOrder == <<"integration.py", "README.md", "pyproject.toml">>

\* agent.py: the dict _parse_analysis_response returns (its parsed_sections
\* are a function of the text).  search.py: None.
Analysis(i, text) == IF i = "agent" THEN Some([raw_analysis |-> text]) ELSE <<>>

\* agent.py: the dict _generate_integration returns.  search.py: None.
Integration(i, t) ==
    IF i = "agent"
    THEN Some([files |-> [f \in {FileOrder[k] : k \in 1..Len(FileOrder)} |->
                            CASE f = "integration.py" -> t[2]
                              [] f = "README.md" -> t[3]
                              [] OTHER -> t[4]]])
    ELSE <<>>

\* save_integration's return value: file name -> path, under
\* integrations/<service_name.lower()>/<action path>/.
SavedFiles(r) ==
    [f \in {FileOrder[k] : k \in 1..Len(FileOrder)} |->
        <<"integrations", Lower(r.service_name), "action_path", f>>]

\* An except block that logs and raises again.
HandleExceptionReraise(e, partial) == [result |-> <<>>, raised |-> Some(e)]

\* An except block that reports no partial results, whatever the locals hold.
HandleExceptionWithoutPartial(e, partial) ==
    [result |-> Some([status |-> "error", error |-> e, partial_results |-> <<>>]),
     raised |-> <<>>]

\* `except Exception as e:` of create_integration: the error dict returned.
HandleException(e, partial) ==
    [result |-> Some([status |-> "error", error |-> e, partial_results |-> partial]),
     raised |-> <<>>]

\* The dict create_integration returns at the end of its try block.
Success ==
    [result |->
        Some(IF impl = "agent"
             THEN [status |-> "success", integration |-> integration,
                   documentation_sources |-> ranked[1],
                   analysis |-> Analysis(impl, texts[1]),
                   saved_files |-> SavedFiles(request[1])]
             ELSE [status |-> "success", integration |-> integration,
                   documentation_sources |-> ranked[1],
                   analysis |-> Analysis(impl, texts[1])]),
     raised |-> <<>>]

\* create_integration ends: its frame and the frames below it are gone.
Exit(outcome) ==
    /\ pc' = "done"
    /\ result' = outcome.result
    /\ raised' = outcome.raised
    /\ qi' = 0
    /\ stage' = 0
    /\ raw' = <<>>
    /\ results' = <<>>
    /\ ranked' = <<>>
    /\ texts' = <<>>
    /\ integration' = <<>>

InitPipeline ==
    /\ ClassifyIdle
    /\ DataIdle
    /\ RestIdle
    /\ ParseIdle
    /\ scorer = "none" /\ context = <<>> /\ content = <<>> /\ scored = {}
    /\ \/ impl = "agent" /\ request \in {Some(r) : r \in PipelineRequests}
       \/ impl = "search" /\ request = Some([service_name |-> N_Acme, integration_type |-> N_REST])
    /\ pc = "search"
    /\ qi = 1
    /\ stage = 0
    /\ calls = <<>>
    /\ raw = <<>>
    /\ failed = {}
    /\ results = <<>>
    /\ ranker = "running"
    /\ ranked = <<>>
    /\ texts = <<>>
    /\ integration = <<>>
    /\ files = <<>>
    /\ result = <<>>
    /\ raised = <<>>

pipeFrame == <<scoreVars, classifyVars, dataVars, parseVars, restVars, impl>>

\* A ranker that issues the search calls of all the queries left at once
\* (asyncio.gather) and then awaits the answers.
IssueSearchAllAtOnce ==
    /\ pc = "search"
    /\ calls' = calls \o [k \in 1..(Len(SearchQueries(request[1])) - qi + 1) |->
                            <<"search", SearchQueries(request[1])[qi + k - 1]>>]
    /\ pc' = "search_wait"
    /\ UNCHANGED <<pipeFrame, qi, stage, raw, failed, results, ranker, ranked, texts,
                   integration, files, result, raised>>

\* `await self.search_tool.ainvoke({"query": query})` (agent.py), and
\* `await self.enhanced_search.search(query)` down to its ainvoke (search.py).
IssueSearch ==
    /\ pc = "search"
    /\ calls' = Append(calls, <<"search", SearchQueries(request[1])[qi]>>)
    /\ pc' = "search_wait"
    /\ UNCHANGED <<pipeFrame, qi, stage, raw, failed, results, ranker, ranked, texts,
                   integration, files, result, raised>>

\* The rest of one turn of the ranker's loop, with acc the new `results`:
\* the next query, or after the last one `return sorted(results, ...)`.
NextQuery(acc) ==
    /\ results' = acc
    /\ IF qi = Len(SearchQueries(request[1]))
       THEN /\ ranked' = Some(SortedDescending(acc))
            /\ ranker' = "returned"
            /\ pc' = "llm"
            /\ stage' = 1
            /\ qi' = qi
       ELSE /\ qi' = qi + 1
            /\ pc' = "search"
            /\ UNCHANGED <<ranked, ranker, stage>>

\* agent.py: the search call answers; its hits are scored and filtered.
AgentSearchReturns(search_response) ==
    /\ impl = "agent"
    /\ pc = "search_wait"
    /\ raw' = Append(raw, search_response)
    /\ NextQuery(results \o AgentProcessed[request[1]][search_response])
    /\ UNCHANGED <<pipeFrame, calls, failed, texts, integration, files, result, raised>>

\* A ranker that takes a failing search call for an empty response and
\* goes on with the next query.
AgentSearchSkipsFailure ==
    /\ impl = "agent"
    /\ pc = "search_wait"
    /\ failed' = failed \cup {qi}
    /\ raw' = Append(raw, <<>>)
    /\ NextQuery(results)
    /\ UNCHANGED <<pipeFrame, calls, texts, integration, files, result, raised>>

\* agent.py: the search call raises.  Nothing catches it in
\* _find_documentation; create_integration's except block returns.
AgentSearchRaises ==
    /\ impl = "agent"
    /\ pc = "search_wait"
    /\ failed' = failed \cup {qi}
    /\ ranker' = "raised"
    /\ Exit(HandleException("search failed", integration))
    /\ UNCHANGED <<pipeFrame, calls, files>>

\* search.py: the search call answers inside EnhancedSearchTool.search; the
\* processed hits are converted and accumulated.
EnhancedSearchReturns(raw_results) ==
    /\ impl = "search"
    /\ pc = "search_wait"
    /\ raw' = Append(raw, raw_results)
    /\ NextQuery(results \o EnhancedProcessed[raw_results])
    /\ UNCHANGED <<pipeFrame, calls, failed, texts, integration, files, result, raised>>

\* An EnhancedSearchTool.search without its except block: the exception of
\* the search call passes through the ranker to create_integration.
EnhancedSearchPropagates ==
    /\ impl = "search"
    /\ pc = "search_wait"
    /\ failed' = failed \cup {qi}
    /\ ranker' = "raised"
    /\ Exit(HandleException("search failed", integration))
    /\ UNCHANGED <<pipeFrame, calls, files>>

\* search.py: the search call, or the processing of its answer, raises
\* inside the try block of EnhancedSearchTool.search, whose except block
\* returns []: the ranker goes on with an empty response.
EnhancedSearchRaises ==
    /\ impl = "search"
    /\ pc = "search_wait"
    /\ failed' = failed \cup {qi}
    /\ raw' = Append(raw, <<>>)
    /\ NextQuery(results \o EnhancedProcessed[<<>>])
    /\ UNCHANGED <<pipeFrame, calls, texts, integration, files, result, raised>>

\* A create_integration that issues the language-model calls still to be
\* made at once and then awaits the answers.
IssueLlmAllAtOnce ==
    /\ pc = "llm"
    /\ calls' = calls \o [k \in 1..(Len(LlmStages(impl)) - stage + 1) |->
                            <<"llm", LlmStages(impl)[stage + k - 1]>>]
    /\ pc' = "llm_wait"
    /\ raw' = <<>>
    /\ results' = <<>>
    /\ failed' = {}
    /\ UNCHANGED <<pipeFrame, qi, stage, ranker, ranked, texts, integration, files,
                   result, raised>>

\* `await self.llm.ainvoke(...)`: the next language-model call is issued.
\* The ranker's frame, kept until here, is gone.
IssueLlm ==
    /\ pc = "llm"
    /\ calls' = Append(calls, <<"llm", LlmStages(impl)[stage]>>)
    /\ pc' = "llm_wait"
    /\ raw' = <<>>
    /\ results' = <<>>
    /\ failed' = {}
    /\ UNCHANGED <<pipeFrame, qi, stage, ranker, ranked, texts, integration, files,
                   result, raised>>

\* The language-model call answers.  After the last one the generation step
\* is complete: agent.py goes on to save, search.py returns.
LlmReturns ==
    /\ pc = "llm_wait"
    /\ LET t == Append(texts, LlmText(LlmStages(impl)[stage]))
       IN  IF stage < Len(LlmStages(impl))
           THEN /\ texts' = t
                /\ stage' = stage + 1
                /\ pc' = "llm"
                /\ UNCHANGED <<qi, raw, results, ranked, integration, result, raised>>
           ELSE IF impl = "agent"
           THEN /\ texts' = t
                /\ integration' = Integration(impl, t)
                /\ pc' = "save"
                /\ UNCHANGED <<qi, stage, raw, results, ranked, result, raised>>
           ELSE Exit(Success)
    /\ UNCHANGED <<pipeFrame, calls, failed, ranker, files>>

\* The language-model call raises; create_integration's except block returns.
LlmRaises ==
    /\ pc = "llm_wait"
    /\ Exit(HandleException("llm failed", integration))
    /\ UNCHANGED <<pipeFrame, calls, failed, ranker, files>>

\* agent.py: save_integration writes the three files; create_integration
\* returns its success dict.
SaveIntegration ==
    /\ impl = "agent"
    /\ pc = "save"
    /\ calls' = Append(calls, <<"save">>)
    /\ files' = FileOrder
    /\ Exit(Success)
    /\ UNCHANGED <<pipeFrame, failed, ranker>>

\* agent.py: save_integration fails after writing k of the files (mkdir, open
\* or write raises); it raises again and create_integration's except block
\* returns.
SaveIntegrationRaises(k) ==
    /\ impl = "agent"
    /\ pc = "save"
    /\ calls' = Append(calls, <<"save">>)
    /\ files' = SubSeq(FileOrder, 1, k)
    /\ Exit(HandleException("save failed", integration))
    /\ UNCHANGED <<pipeFrame, failed, ranker>>

Next ==
    \/ IssueSearch
    \/ \E search_response \in Responses : AgentSearchReturns(search_response)
    \/ AgentSearchRaises
    \/ \E raw_results \in Responses : EnhancedSearchReturns(raw_results)
    \/ EnhancedSearchRaises
    \/ IssueLlm
    \/ LlmReturns
    \/ LlmRaises
    \/ SaveIntegration
    \/ \E k \in 0..(Len(FileOrder) - 1) : SaveIntegrationRaises(k)

Spec == InitPipeline /\ [][Next]_vars

\* ------------------------------------------------------------------------
\* str: strip, split, replace
\* ------------------------------------------------------------------------

\* The whitespace characters str.strip() and str.split() look for.
Whitespace == {" ", "\t", "\n"}

RECURSIVE LStrip(_)
LStrip(s) == IF s # <<>> /\ Head(s) \in Whitespace THEN LStrip(Tail(s)) ELSE s

RECURSIVE RStrip(_)
RStrip(s) ==
    IF s # <<>> /\ s[Len(s)] \in Whitespace THEN RStrip(SubSeq(s, 1, Len(s) - 1)) ELSE s

\* s.strip()
Strip(s) == RStrip(LStrip(s))

\* s.split(sep) for a one-character separator: every occurrence of sep
\* ends a piece, empty pieces included.
RECURSIVE Split(_, _)
Split(s, sep) ==
    IF \A i \in 1..Len(s) : s[i] # sep THEN <<s>>
    ELSE LET i == CHOOSE k \in 1..Len(s) : s[k] = sep /\ \A j \in 1..(k - 1) : s[j] # sep
         IN  <<SubSeq(s, 1, i - 1)>> \o Split(SubSeq(s, i + 1, Len(s)), sep)

\* s.replace(old, ""): every occurrence of old removed, left to right.
RECURSIVE Remove(_, _)
Remove(s, old) ==
    IF Len(s) < Len(old) THEN s
    ELSE IF SubSeq(s, 1, Len(old)) = old THEN Remove(SubSeq(s, Len(old) + 1, Len(s)), old)
    ELSE <<Head(s)>> \o Remove(Tail(s), old)

\* ------------------------------------------------------------------------
\* The parsed document: a BeautifulSoup tree
\* ------------------------------------------------------------------------

\* A NavigableString.
Text(s) ==
    [tag |-> "#text", class |-> <<>>, id |-> <<>>, role |-> <<>>, children |-> <<>>,
     string |-> s]

\* A Tag: its name, the tokens of its class attribute (none: no attribute),
\* its id and role attributes (Optional) and its contents.
Tag(name, class, id, role, children) ==
    [tag |-> name, class |-> class, id |-> id, role |-> role, children |-> children,
     string |-> <<>>]

\* The BeautifulSoup object of a document with the given top-level nodes.
Soup(children) == Tag("[document]", <<>>, <<>>, <<>>, children)

IsTag(n) == n.tag # "#text"

\* The nodes of a list of subtrees in document order (every node before its
\* contents).
RECURSIVE NodesOf(_, _)
NodesOf(nodes, i) ==
    IF i > Len(nodes) THEN <<>>
    ELSE <<nodes[i]>> \o NodesOf(nodes[i].children, 1) \o NodesOf(nodes, i + 1)

\* tag.descendants
Descendants(n) == NodesOf(n.children, 1)

\* The first entry of a list that passes the test, or None.
First(list, Test(_)) ==
    LET hits == {i \in 1..Len(list) : Test(list[i])}
    IN  IF hits = {} THEN <<>>
        ELSE Some(list[CHOOSE i \in hits : \A j \in hits : i <= j])

\* Matching a class_ string: one of the element's class tokens is c.
HasClass(n, c) == \E i \in 1..Len(n.class) : n.class[i] = c

\* tag.find(names, class_=c)
FindClass(n, names, c) ==
    First(Descendants(n), LAMBDA x : x.tag \in names /\ HasClass(x, c))

\* tag.find(name)
Find(n, name) == First(Descendants(n), LAMBDA x : x.tag = name)

RECURSIVE Join(_)
Join(strings) == IF strings = <<>> THEN <<>> ELSE Head(strings) \o Join(Tail(strings))

\* The strings below a tag, in document order.
Strings(n) ==
    LET below == Descendants(n)
        texts_ == SelectSeq(below, LAMBDA x : ~IsTag(x))
    IN  [i \in 1..Len(texts_) |-> texts_[i].string]

\* tag.get_text(), tag.text
GetText(n) == Join(Strings(n))

\* tag.get_text(strip=True): every string stripped, the empty ones left
\* out, the rest joined with nothing between them.
GetTextStripped(n) ==
    LET stripped == [i \in 1..Len(Strings(n)) |-> Strip(Strings(n)[i])]
    IN  Join(SelectSeq(stripped, LAMBDA x : x # <<>>))

\* tag.string: the string of a tag with a single string in it, following
\* single children; None when the tag has no or several contents.
RECURSIVE StringOf(_)
StringOf(n) ==
    IF Len(n.children) # 1 THEN <<>>
    ELSE IF IsTag(n.children[1]) THEN StringOf(n.children[1])
    ELSE Some(n.children[1].string)

\* ------------------------------------------------------------------------
\* DocumentationParser (parser.py)
\* ------------------------------------------------------------------------

\* A call that returned the value v.
Returned(v) == [returned |-> Some(v), raised |-> <<>>]

\* A call that raised the exception e.
Raised(e) == [returned |-> <<>>, raised |-> Some(e)]

\* The empty dict {}.
EmptyDict == [k \in {} |-> <<>>]

C_endpoint == <<"e","n","d","p","o","i","n","t">>

C_description == <<"d","e","s","c","r","i","p","t","i","o","n">>

C_authentication == <<"a","u","t","h","e","n","t","i","c","a","t","i","o","n">>

C_introduction == <<"i","n","t","r","o","d","u","c","t","i","o","n">>

C_overview == <<"o","v","e","r","v","i","e","w">>

C_page_title == <<"p","a","g","e","-","t","i","t","l","e">>

C_documentation_title == <<"d","o","c","u","m","e","n","t","a","t","i","o","n","-","t","i","t","l","e">>

W_language == <<"l","a","n","g","u","a","g","e","-">>

W_API_Key == <<"A","P","I"," ","K","e","y">>

\* soup.select_one(".c"): the first element with the class token c.
SelectClass(soup, c) == First(Descendants(soup), LAMBDA x : IsTag(x) /\ HasClass(x, c))

\* soup.select_one("#overview")
SelectId(soup, id) == First(Descendants(soup), LAMBDA x : IsTag(x) /\ x.id = Some(id))

\* soup.select_one('section[role="main"] > p:first-of-type') below the
\* nodes i.. of a list of siblings: the first p in document order that is a
\* child of a section with role "main" and the first p among its siblings.
RECURSIVE SelectMainParagraph(_, _, _)
SelectMainParagraph(nodes, i, inMain) ==
    IF i > Len(nodes) THEN <<>>
    ELSE LET n == nodes[i]
         IN  IF /\ inMain
                /\ n.tag = "p"
                /\ \A j \in 1..(i - 1) : nodes[j].tag # "p"
             THEN Some(n)
             ELSE LET below == SelectMainParagraph(
                                   n.children, 1,
                                   n.tag = "section" /\ n.role = Some("main"))
                  IN  IF below # <<>> THEN below
                      ELSE SelectMainParagraph(nodes, i + 1, inMain)

\* _extract_title(soup)
ExtractTitle(soup) ==
    LET title == Find(soup, "title")
        h1 == Find(soup, "h1")
        page_title == SelectClass(soup, C_page_title)
        documentation_title == SelectClass(soup, C_documentation_title)
    IN  IF title # <<>>
        THEN \* soup.title.string.strip(): .string is None for a title
             \* without a single string in it
             IF StringOf(title[1]) = <<>>
             THEN Raised("AttributeError")
             ELSE Returned(Some(Strip(StringOf(title[1])[1])))
        ELSE IF h1 # <<>> THEN Returned(Some(Strip(GetText(h1[1]))))
        ELSE IF page_title # <<>> THEN Returned(Some(Strip(GetText(page_title[1]))))
        ELSE IF documentation_title # <<>>
        THEN Returned(Some(Strip(GetText(documentation_title[1]))))
        ELSE Returned(<<>>)

\* _extract_overview(soup)
ExtractOverview(soup) ==
    LET introduction == SelectClass(soup, C_introduction)
        overview == SelectClass(soup, C_overview)
        by_id == SelectId(soup, "overview")
        paragraph == SelectMainParagraph(soup.children, 1, FALSE)
    IN  IF introduction # <<>> THEN Some(Strip(GetText(introduction[1])))
        ELSE IF overview # <<>> THEN Some(Strip(GetText(overview[1])))
        ELSE IF by_id # <<>> THEN Some(Strip(GetText(by_id[1])))
        ELSE IF paragraph # <<>> THEN Some(Strip(GetText(paragraph[1])))
        ELSE <<>>

\* An extraction that takes the first element of class "authentication",
\* whatever its tag.
ExtractAuthenticationAnyTag(soup) ==
    LET auth_section == SelectClass(soup, C_authentication)
    IN  IF auth_section = <<>> THEN EmptyDict
        ELSE LET code_block == Find(auth_section[1], "code")
                 auth_info ==
                     [instructions |-> GetTextStripped(auth_section[1]),
                      type |-> IF Contains(GetText(auth_section[1]), W_API_Key)
                               THEN Some(W_API_Key) ELSE <<>>]
             IN  IF code_block # <<>>
                 THEN auth_info @@ [example |-> GetTextStripped(code_block[1])]
                 ELSE auth_info

\* _extract_authentication(soup)
ExtractAuthentication(soup) ==
    LET auth_section == FindClass(soup, {"div"}, C_authentication)
    IN  IF auth_section = <<>> THEN EmptyDict
        ELSE LET code_block == Find(auth_section[1], "code")
                 auth_info ==
                     [instructions |-> GetTextStripped(auth_section[1]),
                      type |-> IF Contains(GetText(auth_section[1]), W_API_Key)
                               THEN Some(W_API_Key) ELSE <<>>]
             IN  IF code_block # <<>>
                 THEN auth_info @@ [example |-> GetTextStripped(code_block[1])]
                 ELSE auth_info

\* The Endpoint data class.
Endpoint(method, path, description) ==
    [path |-> path, method |-> method, description |-> description,
     parameters |-> <<>>, response |-> <<>>, authentication |-> <<>>]

\* The body of `if endpoint_div:` -- the endpoints found in one block.
EndpointsOf(endpoint_div) ==
    LET endpoint_title == Find(endpoint_div, "h3")
    IN  IF endpoint_title = <<>> THEN <<>>
        ELSE LET method_path == Split(GetTextStripped(endpoint_title[1]), " ")
                 paragraph == FindClass(endpoint_div, {"p"}, C_description)
             IN  IF Len(method_path) >= 2
                 THEN <<Endpoint(method_path[1], method_path[2],
                                 IF paragraph # <<>>
                                 THEN Some(GetTextStripped(paragraph[1]))
                                 ELSE <<>>)>>
                 ELSE <<>>

\* An extraction that goes through every block of class "endpoint".
ExtractEndpointsEveryBlock(soup) ==
    LET blocks == SelectSeq(Descendants(soup),
                            LAMBDA x : x.tag = "div" /\ HasClass(x, C_endpoint))
    IN  Join([i \in 1..Len(blocks) |-> EndpointsOf(blocks[i])])

\* _extract_endpoints(soup)
ExtractEndpoints(soup) ==
    LET endpoint_div == FindClass(soup, {"div"}, C_endpoint)
    IN  IF endpoint_div = <<>> THEN <<>> ELSE EndpointsOf(endpoint_div[1])

\* The CodeExample data class.
CodeExample(language, code, description) ==
    [language |-> language, code |-> code, description |-> description, context |-> <<>>]

\* class_=lambda x: x and 'language-' in x -- on a pre element.
IsLanguageBlock(n) ==
    n.tag = "pre" /\ \E i \in 1..Len(n.class) : Contains(n.class[i], W_language)

\* block.find_previous(['p', 'h3', 'h4']) for the node at position i of the
\* document order `all`.
FindPrevious(all, i) ==
    LET before == {j \in 1..(i - 1) : all[j].tag \in {"p", "h3", "h4"}}
    IN  IF before = {} THEN <<>>
        ELSE Some(all[CHOOSE j \in before : \A k \in before : k <= j])

\* _extract_code_examples(soup)
ExtractCodeExamples(soup) ==
    LET all == Descendants(soup)
        RECURSIVE Blocks(_)
        Blocks(i) ==
            IF i > Len(all) THEN <<>>
            ELSE IF IsLanguageBlock(all[i])
            THEN LET prev_elem == FindPrevious(all, i)
                 IN  <<CodeExample(Remove(all[i].class[1], W_language),
                                   GetTextStripped(all[i]),
                                   IF prev_elem # <<>>
                                   THEN Some(GetTextStripped(prev_elem[1]))
                                   ELSE <<>>)>> \o Blocks(i + 1)
            ELSE Blocks(i + 1)
    IN  Blocks(1)

W_import == <<"i","m","p","o","r","t">>

W_def == <<"d","e","f">>

W_class == <<"c","l","a","s","s">>

L_python == <<"p","y","t","h","o","n">>

L_json == <<"j","s","o","n">>

L_xml == <<"x","m","l">>

L_unknown == <<"u","n","k","n","o","w","n">>

\* _detect_language(code_block)
DetectLanguage(code_block) ==
    LET classes == code_block.class
        marked == {i \in 1..Len(classes) : Contains(classes[i], W_language)}
        text == Lower(GetText(code_block))
    IN  IF marked # {}
        THEN Remove(classes[CHOOSE i \in marked : \A j \in marked : i <= j], W_language)
        ELSE IF Contains(text, W_import) /\ (Contains(text, W_def) \/ Contains(text, W_class))
        THEN L_python
        ELSE IF Contains(text, <<"{">>) /\ (Contains(text, <<":">>) \/ Contains(text, <<"=">>))
        THEN L_json
        ELSE IF Contains(text, <<"<">>) /\ Contains(text, <<">">>)
        THEN L_xml
        ELSE L_unknown

\* A parse_documentation that reads soup.title.string without looking
\* whether there is a title element: a page without one ends in the except
\* block.
ParseDocumentationNeedsTitle(fetched) ==
    IF fetched = <<>> THEN Returned([error |-> "fetch failed"])
    ELSE IF Find(fetched[1], "title") = <<>> THEN Returned([error |-> "AttributeError"])
    ELSE LET soup == fetched[1]
             intro_div == FindClass(soup, {"div"}, C_introduction)
         IN  Returned(
                 [title |-> StringOf(Find(soup, "title")[1]),
                  overview |-> IF intro_div # <<>>
                               THEN Some(Strip(GetText(intro_div[1]))) ELSE <<>>,
                  endpoints |-> ExtractEndpoints(soup),
                  authentication |-> ExtractAuthentication(soup),
                  examples |-> ExtractCodeExamples(soup)])

\* parse_documentation(url) once requests.get has answered: fetched is the
\* parsed page, or None when the request failed or raise_for_status()
\* raised (HTTP 404).  The except block turns every exception into a dict.
ParseDocumentation(fetched) ==
    IF fetched = <<>> THEN Returned([error |-> "fetch failed"])
    ELSE LET soup == fetched[1]
             intro_div == FindClass(soup, {"div"}, C_introduction)
             title == Find(soup, "title")
         IN  Returned(
                 [title |-> IF title # <<>> THEN StringOf(title[1]) ELSE <<>>,
                  overview |-> IF intro_div # <<>>
                               THEN Some(Strip(GetText(intro_div[1]))) ELSE <<>>,
                  endpoints |-> ExtractEndpoints(soup),
                  authentication |-> ExtractAuthentication(soup),
                  examples |-> ExtractCodeExamples(soup)])

\* ------------------------------------------------------------------------
\* SpecParse: a client calls the extraction routines on a parsed page
\* ------------------------------------------------------------------------

\* An element without id and role attributes.
El(name, class, children) == Tag(name, class, <<>>, <<>>, children)

\* Endpoint blocks and other containers with a level-3 heading.
EndpointBlocks ==
    { El("div", <<C_endpoint>>,
         <<El("h3", <<>>, <<Text(<<"G","E","T"," ","/","u","s","e","r","s">>)>>),
           El("p", <<C_description>>, <<Text(<<" ","L","i","s","t"," ","u","s","e","r","s"," ">>)>>)>>),
      El("div", <<C_endpoint>>, <<El("h3", <<>>, <<Text(<<"G","E","T"," "," ","/","u","s","e","r","s">>)>>)>>),
      El("div", <<C_endpoint>>, <<El("h3", <<>>, <<Text(<<"G","E","T","\t","/","u","s","e","r","s">>)>>)>>),
      El("div", <<C_endpoint>>, <<El("h3", <<>>, <<Text(<<"G","E","T","\n","/","u","s","e","r","s">>)>>)>>),
      El("div", <<C_endpoint>>, <<El("h3", <<>>, <<Text(<<"U","s","e","r","s">>)>>)>>),
      El("div", <<C_endpoint>>, <<El("p", <<C_description>>, <<Text(<<"N","o"," ","h","e","a","d","i","n","g">>)>>)>>),
      El("div", <<<<"c","a","r","d">>, C_endpoint>>, <<El("h3", <<>>, <<Text(<<" ","P","O","S","T"," ","/","i","t","e","m","s"," ">>)>>)>>),
      El("div", <<>>, <<El("h3", <<>>, <<Text(<<"P","U","T"," ","/","x">>)>>)>>) }

\* Authentication sections and a code element outside of them.
AuthenticationBlocks ==
    { El("div", <<C_authentication>>,
         <<El("h2", <<>>, <<Text(<<"A","u","t","h">>)>>),
           El("p", <<>>, <<Text(<<" ","U","s","e"," ","A","P","I"," ","K","e","y"," ">>)>>),
           El("code", <<>>, <<Text(<<" ","X","-","K","e","y",":"," ","k"," ">>)>>),
           El("code", <<>>, <<Text(<<"s","e","c","o","n","d">>)>>)>>),
      El("div", <<C_authentication>>, <<Text(<<" ","U","s","e"," ","a"," ","t","o","k","e","n"," ">>)>>),
      El("div", <<C_authentication>>, <<El("b", <<>>, <<Text(<<"A","P","I">>)>>), Text(<<" ","K","e","y">>)>>),
      El("div", <<C_authentication>>, <<El("p", <<>>, <<Text(<<"u","s","e"," ","a","p","i"," ","k","e","y">>)>>)>>),
      El("section", <<C_authentication>>,
         <<El("p", <<>>, <<Text(<<"A","P","I"," ","K","e","y">>)>>), El("code", <<>>, <<Text(<<"k">>)>>)>>),
      El("code", <<>>, <<Text(<<"o","u","t","s","i","d","e">>)>>) }

\* Code containers, and the elements that may precede them.
ExampleBlocks ==
    { El("pre", <<<<"l","a","n","g","u","a","g","e","-","p","y","t","h","o","n">>>>, <<Text(<<"i","m","p","o","r","t"," ","r","e","q","u","e","s","t","s">>)>>),
      El("pre", <<<<"h","i","g","h","l","i","g","h","t">>, <<"l","a","n","g","u","a","g","e","-","j","s">>>>, <<Text(<<" ","l","e","t"," ","x"," ","="," ","y"," ">>)>>),
      El("pre", <<>>, <<Text(<<"p","l","a","i","n">>)>>),
      El("h3", <<>>, <<Text(<<"F","e","t","c","h"," ","U","s","e","r","s">>)>>),
      El("h2", <<>>, <<Text(<<"G","e","t"," ","s","t","a","r","t","e","d">>)>>),
      El("p", <<>>, <<Text(<<" ","C","a","l","l"," ","i","t",":"," ">>)>>),
      El("p", <<>>, <<Text(<<"S","e","e">>), El("pre", <<<<"l","a","n","g","u","a","g","e","-","x","m","l">>>>, <<Text(<<"<","a",">">>)>>)>>) }

\* Title elements and the elements _extract_title falls back to.
TitleBlocks ==
    { El("title", <<>>, <<Text(<<"A","P","I"," ","D","o","c","s">>)>>),
      El("title", <<>>, <<Text(<<" ","D","o","c","s"," ","\n">>)>>),
      El("title", <<>>, <<>>),
      El("title", <<>>, <<El("b", <<>>, <<Text(<<"B","o","l","d">>)>>)>>),
      El("h1", <<>>, <<Text(<<" ","A","P","I"," ","R","e","f","e","r","e","n","c","e"," ">>)>>),
      El("div", <<C_page_title>>, <<Text(<<"P","a","g","e">>)>>),
      El("span", <<C_documentation_title>>, <<Text(<<"M","a","n","u","a","l">>)>>) }

\* The elements the overview may be taken from.
OverviewBlocks ==
    { El("div", <<C_introduction>>, <<Text(<<" ","T","h","i","s"," ","i","s"," ","t","h","e"," ","A","P","I","."," ">>)>>),
      El("p", <<C_introduction>>, <<Text(<<"I","n","t","r","o"," ","p","a","r","a","g","r","a","p","h">>)>>),
      El("div", <<C_overview>>, <<Text(<<"S","h","o","r","t"," ","o","v","e","r","v","i","e","w">>)>>),
      Tag("div", <<>>, Some("overview"), <<>>, <<Text(<<"B","y"," ","i","d">>)>>),
      Tag("section", <<>>, <<>>, Some("main"),
          <<El("h2", <<>>, <<Text(<<"G","u","i","d","e">>)>>),
            El("p", <<>>, <<Text(<<" ","F","i","r","s","t"," ">>)>>),
            El("p", <<>>, <<Text(<<"S","e","c","o","n","d">>)>>)>>),
      Tag("section", <<>>, <<>>, Some("main"),
          <<El("div", <<>>, <<El("p", <<>>, <<Text(<<"D","e","e","p">>)>>)>>)>>),
      Tag("section", <<>>, <<>>, Some("complementary"),
          <<El("p", <<>>, <<Text(<<"S","i","d","e">>)>>)>>) }

\* A choice of one block of every kind, each present or not.
SectionChoice ==
    << El("title", <<>>, <<Text(<<"A","P","I"," ","D","o","c","s">>)>>),
       El("div", <<C_introduction>>, <<Text(<<" ","T","h","i","s"," ","i","s"," ","t","h","e"," ","A","P","I","."," ">>)>>),
       El("div", <<C_authentication>>, <<El("p", <<>>, <<Text(<<"A","P","I"," ","K","e","y">>)>>)>>),
       El("div", <<C_endpoint>>, <<El("h3", <<>>, <<Text(<<"G","E","T"," ","/","u","s","e","r","s">>)>>)>>),
       El("pre", <<<<"l","a","n","g","u","a","g","e","-","p","y","t","h","o","n">>>>, <<Text(<<"i","m","p","o","r","t"," ","r","e","q","u","e","s","t","s">>)>>) >>

\* The sub-sequence of s at the positions in keep.
RECURSIVE Pick(_, _, _)
Pick(s, keep, i) ==
    IF i > Len(s) THEN <<>>
    ELSE (IF i \in keep THEN <<s[i]>> ELSE <<>>) \o Pick(s, keep, i + 1)

\* The parsed pages: up to MaxBlocks blocks of one kind, or a page with
\* some of its sections missing.
Documents ==
    {Soup(blocks) :
        blocks \in SeqUpTo(EndpointBlocks, MaxBlocks) \cup SeqUpTo(AuthenticationBlocks, MaxBlocks)
                   \cup SeqUpTo(ExampleBlocks, MaxBlocks) \cup SeqUpTo(TitleBlocks, MaxBlocks)
                   \cup SeqUpTo(OverviewBlocks, MaxBlocks)
                   \cup {Pick(SectionChoice, keep, 1) : keep \in SUBSET (1..Len(SectionChoice))}}

\* The code containers _detect_language is called on.
CodeContainers ==
    {El("code", class, <<Text(text)>>) :
        class \in { <<>>, <<<<"l","a","n","g","u","a","g","e","-","p","y","t","h","o","n">>>>, <<<<"h","l","j","s">>, <<"l","a","n","g","u","a","g","e","-","j","s","o","n">>>>,
                    <<<<"x","l","a","n","g","u","a","g","e","-","p","y">>>>, <<<<"h","l","j","s">>>> },
        text \in { <<"i","m","p","o","r","t"," ","o","s","\n","d","e","f"," ","f">>, <<"I","M","P","O","R","T"," ","X"," ","C","L","A","S","S"," ","Y">>, <<"i","m","p","o","r","t"," ","o","s">>, <<"{","a",":"," ","b","}">>,
                   <<"{","a","=","b","}">>, <<"{","a","}">>, <<"<","a",">">>, <<"p","l","a","i","n">>, <<"i","m","p","o","r","t"," ","{","d","e","f",":","<",">","}">>, <<"{",":","}","<",">">> }}

InitParse ==
    /\ ScoreIdle
    /\ ClassifyIdle
    /\ DataIdle
    /\ RestIdle
    /\ PipeIdle
    /\ page \in {Some(n) : n \in Documents \cup CodeContainers}
    /\ called = <<>>
    /\ earlier = <<>>

IsDocument == page[1].tag = "[document]"

CallRecord(op, fetch, outcome) == Some([op |-> op, fetch |-> fetch] @@ outcome)

parseFrame == <<scoreVars, classifyVars, dataVars, pipeVars, restVars, page, earlier>>

CallExtractTitle ==
    /\ IsDocument
    /\ called' = CallRecord("_extract_title", "none", ExtractTitle(page[1]))
    /\ UNCHANGED parseFrame

CallExtractOverview ==
    /\ IsDocument
    /\ called' = CallRecord("_extract_overview", "none", Returned(ExtractOverview(page[1])))
    /\ UNCHANGED parseFrame

CallExtractAuthentication ==
    /\ IsDocument
    /\ called' = CallRecord("_extract_authentication", "none",
                            Returned(ExtractAuthentication(page[1])))
    /\ UNCHANGED parseFrame

CallExtractEndpoints ==
    /\ IsDocument
    /\ called' = CallRecord("_extract_endpoints", "none", Returned(ExtractEndpoints(page[1])))
    /\ UNCHANGED parseFrame

CallExtractCodeExamples ==
    /\ IsDocument
    /\ called' = CallRecord("_extract_code_examples", "none",
                            Returned(ExtractCodeExamples(page[1])))
    /\ UNCHANGED parseFrame

CallDetectLanguage ==
    /\ ~IsDocument
    /\ called' = CallRecord("_detect_language", "none", Returned(DetectLanguage(page[1])))
    /\ UNCHANGED parseFrame

\* parse_documentation(url) on a server that answers with the page, or
\* whose answer makes requests.get / raise_for_status raise.
CallParseDocumentation(ok) ==
    /\ IsDocument
    /\ called' = CallRecord("parse_documentation", IF ok THEN "ok" ELSE "failed",
                            ParseDocumentation(IF ok THEN page ELSE <<>>))
    /\ UNCHANGED parseFrame

NextParse ==
    \/ CallExtractTitle
    \/ CallExtractOverview
    \/ CallExtractAuthentication
    \/ CallExtractEndpoints
    \/ CallExtractCodeExamples
    \/ CallDetectLanguage
    \/ \E ok \in BOOLEAN : CallParseDocumentation(ok)

SpecParse == InitParse /\ [][NextParse]_vars

\* ------------------------------------------------------------------------
\* SpecRepeat: the extraction routines run again and again on one page, on
\* one DocumentationParser
\* ------------------------------------------------------------------------

\* The extraction routines whose runs are recorded.
Extractions == {"_extract_authentication", "_extract_endpoints", "_extract_code_examples"}

InitRepeat ==
    /\ ScoreIdle
    /\ ClassifyIdle
    /\ DataIdle
    /\ RestIdle
    /\ PipeIdle
    /\ page \in {Some(n) : n \in Documents}
    /\ called = <<>>
    /\ earlier = [op \in Extractions |-> <<>>]

\* One run of an extraction routine: `value` is what it returns.  The parser
\* holds a logger and a requests session, and the routines write to the
\* logger only.
RunExtraction(op, value) ==
    /\ Len(earlier[op]) < MaxRuns
    /\ called' = CallRecord(op, "none", Returned(value))
    /\ earlier' = [earlier EXCEPT ![op] = Append(@, value)]

\* _extract_authentication reads the tree with find and get_text.
RunExtractAuthentication ==
    /\ RunExtraction("_extract_authentication", ExtractAuthentication(page[1]))
    /\ UNCHANGED <<scoreVars, classifyVars, dataVars, pipeVars, restVars, page>>

\* An _extract_endpoints that takes the endpoint blocks out of the tree
\* (Tag.extract) once it has read them.
RunExtractEndpointsDetaching ==
    /\ RunExtraction("_extract_endpoints", ExtractEndpoints(page[1]))
    /\ page' = Some(Soup(SelectSeq(page[1].children,
                                   LAMBDA n : ~(n.tag = "div" /\ HasClass(n, C_endpoint)))))
    /\ UNCHANGED <<scoreVars, classifyVars, dataVars, pipeVars, restVars>>

\* _extract_endpoints reads the tree with find and get_text.
RunExtractEndpoints ==
    /\ RunExtraction("_extract_endpoints", ExtractEndpoints(page[1]))
    /\ UNCHANGED <<scoreVars, classifyVars, dataVars, pipeVars, restVars, page>>

\* _extract_code_examples reads the tree with find_all, get, get_text and
\* find_previous.
RunExtractCodeExamples ==
    /\ RunExtraction("_extract_code_examples", ExtractCodeExamples(page[1]))
    /\ UNCHANGED <<scoreVars, classifyVars, dataVars, pipeVars, restVars, page>>

NextRepeat ==
    \/ RunExtractAuthentication
    \/ RunExtractEndpoints
    \/ RunExtractCodeExamples

SpecRepeat == InitRepeat /\ [][NextRepeat]_vars

\* ------------------------------------------------------------------------
\* SpecConfig: SearchConfig objects are built and their lists appended to
\* ------------------------------------------------------------------------

\* [".io", ".com", ".dev", ".org"]
DefaultIncludeDomains == <<".io", ".com", ".dev", ".org">>

\* The lists a caller builds to hand them to SearchConfig.
CallerLists == {<<".net">>}

\* The frame of everything outside SpecConfig.
configFrame == <<scoreVars, classifyVars, dataVars, parseVars, pipeVars, pathVars, batchVars>>

InitConfig ==
    /\ ScoreIdle
    /\ ClassifyIdle
    /\ DataIdle
    /\ ParseIdle
    /\ PipeIdle
    /\ PathIdle
    /\ BatchIdle
    /\ heap = <<>>
    /\ configs = <<>>

\* A __post_init__ whose default lists are created once and handed to every
\* instance (a mutable default shared by the class).
PostInitSharedDefaults(include_domains, exclude_domains) ==
    LET earlierInclude == {c \in DOMAIN configs : configs[c].given.include_domains = <<>>}
        earlierExclude == {c \in DOMAIN configs : configs[c].given.exclude_domains = <<>>}
        inc  == IF include_domains # <<>> THEN <<>>
                ELSE IF earlierInclude # {} THEN <<>> ELSE <<DefaultIncludeDomains>>
        h1   == heap \o inc
        exc  == IF exclude_domains # <<>> THEN <<>>
                ELSE IF earlierExclude # {} THEN <<>> ELSE <<<<>>>>
    IN  [heap |-> h1 \o exc,
         include_domains |-> IF include_domains # <<>> THEN include_domains[1]
                             ELSE IF earlierInclude # {}
                             THEN configs[CHOOSE c \in earlierInclude : TRUE].include_domains
                             ELSE Len(h1),
         exclude_domains |-> IF exclude_domains # <<>> THEN exclude_domains[1]
                             ELSE IF earlierExclude # {}
                             THEN configs[CHOOSE c \in earlierExclude : TRUE].exclude_domains
                             ELSE Len(h1 \o exc)]

\* SearchConfig.__post_init__: a field left None gets a list created by this
\* very call; the result is the new heap and the ids of the two lists.
PostInit(include_domains, exclude_domains) ==
    LET inc == IF include_domains = <<>> THEN <<DefaultIncludeDomains>> ELSE <<>>
        h1  == heap \o inc
        exc == IF exclude_domains = <<>> THEN <<<<>>>> ELSE <<>>
    IN  [heap |-> h1 \o exc,
         include_domains |-> IF include_domains = <<>> THEN Len(h1) ELSE include_domains[1],
         exclude_domains |-> IF exclude_domains = <<>> THEN Len(h1 \o exc) ELSE exclude_domains[1]]

\* The caller creates a list object.
MakeList(items) ==
    /\ Len(SelectSeq(heap, LAMBDA l : l # <<>> /\ l[1] \in {items[1]})) < MaxCallerLists
    /\ heap' = Append(heap, items)
    /\ UNCHANGED <<configFrame, configs>>

\* SearchConfig(include_domains=..., exclude_domains=...): each argument is
\* None (<<>>) or a list object of the caller.
ConstructSearchConfig(include_domains, exclude_domains) ==
    /\ Len(configs) < MaxConfigs
    /\ LET built_ == PostInit(include_domains, exclude_domains)
       IN  /\ heap' = built_.heap
           /\ configs' = Append(configs,
                                [include_domains |-> built_.include_domains,
                                 exclude_domains |-> built_.exclude_domains,
                                 given |-> [include_domains |-> include_domains,
                                            exclude_domains |-> exclude_domains]])
    /\ UNCHANGED configFrame

\* config.include_domains.append(item) or config.exclude_domains.append(item),
\* or the same on a list the caller holds: list object id grows in place.
\* One append of an item per list is followed.
AppendToList(id, item) ==
    /\ \A i \in DOMAIN heap[id] : heap[id][i] # item
    /\ heap' = [heap EXCEPT ![id] = Append(@, item)]
    /\ UNCHANGED <<configFrame, configs>>

NextConfig ==
    \/ \E items \in CallerLists : MakeList(items)
    \/ \E inc, exc \in {<<>>} \cup {Some(id) : id \in DOMAIN heap} :
           ConstructSearchConfig(inc, exc)
    \/ \E id \in DOMAIN heap : AppendToList(id, ".ai")

SpecConfig == InitConfig /\ [][NextConfig]_vars

\* ------------------------------------------------------------------------
\* _generate_action_path (agent.py)
\* ------------------------------------------------------------------------

\* str.isalnum() on one character: letters (the dotless i and the long s
\* are letters) and digits.
IsAlnum(c) ==
    \/ \E i \in 1..26 : c = UpperAlpha[i] \/ c = LowerAlpha[i]
    \/ c \in {DotlessI, LongS}
    \/ c \in Digits

\* s.split(): the maximal runs of non-whitespace characters.
RECURSIVE SplitWords(_)
SplitWords(s) ==
    LET rest == LStrip(s)
    IN  IF rest = <<>> THEN <<>>
        ELSE LET n == IF \A k \in 1..Len(rest) : rest[k] \notin Whitespace THEN Len(rest)
                      ELSE (CHOOSE k \in 1..Len(rest) :
                               /\ rest[k] \in Whitespace
                               /\ \A j \in 1..(k - 1) : rest[j] \notin Whitespace) - 1
             IN  <<SubSeq(rest, 1, n)>> \o SplitWords(SubSeq(rest, n + 1, Len(rest)))

\* sep.join(words)
RECURSIVE JoinWith(_, _)
JoinWith(sep, words) ==
    IF words = <<>> THEN <<>>
    ELSE IF Len(words) = 1 THEN words[1]
    ELSE words[1] \o sep \o JoinWith(sep, Tail(words))

\* s.strip(c) for one character c.
RECURSIVE StripChar(_, _)
StripChar(s, c) ==
    IF s # <<>> /\ Head(s) = c THEN StripChar(Tail(s), c)
    ELSE IF s # <<>> /\ s[Len(s)] = c THEN StripChar(SubSeq(s, 1, Len(s) - 1), c)
    ELSE s

\* ["hubspot", "intercom", "salesforce"]
Services ==
    << <<"h","u","b","s","p","o","t">>, <<"i","n","t","e","r","c","o","m">>, <<"s","a","l","e","s","f","o","r","c","e">> >>

\* ["a", "the", "to", "and", "or", "in"]
FillerWords == { <<"a">>, <<"t","h","e">>, <<"t","o">>, <<"a","n","d">>, <<"o","r">>, <<"i","n">> }

\* The loop over the services: " in <service>" and " to <service>" removed.
RECURSIVE RemoveServices(_, _)
RemoveServices(action, i) ==
    IF i > Len(Services) THEN action
    ELSE RemoveServices(
             Remove(Remove(action, <<" ","i","n"," ">> \o Services[i]),
                    <<" ","t","o"," ">> \o Services[i]),
             i + 1)

\* IntegrationAgent._generate_action_path(description)
GenerateActionPath(description_) ==
    LET action == RemoveServices(Lower(description_), 1)
        words == SelectSeq(SplitWords(action), LAMBDA w : w \notin FillerWords)
        joined == JoinWith(<<"_">>, words)
        action_path == [i \in 1..Len(joined) |->
                           IF IsAlnum(joined[i]) \/ joined[i] = "_" THEN joined[i] ELSE "_"]
    IN  StripChar(action_path, "_")

\* The words action descriptions are made of; the empty word makes two
\* spaces follow one another.
DescriptionWords ==
    { <<"L","o","g">>, <<"a">>, <<"T","h","e">>, <<"t","o">>, <<"i","n">>, <<"H","u","b","s","p","o","t">>,
      <<"e","-","m","a","i","l","!">>, <<"_","v","2">>, <<>> }

\* "Log a call to a Company in Hubspot"
ExampleDescription ==
    <<"L","o","g"," ","a"," ","c","a","l","l"," ","t","o"," ","a"," ","C","o","m","p","a","n","y"," ","i","n"," ","H","u","b","s","p","o","t">>

Descriptions ==
    {JoinWith(<<" ">>, ws) : ws \in SeqUpTo(DescriptionWords, MaxWords)} \cup {ExampleDescription}

InitPath ==
    /\ ScoreIdle
    /\ ClassifyIdle
    /\ DataIdle
    /\ ParseIdle
    /\ PipeIdle
    /\ ConfigIdle
    /\ BatchIdle
    /\ actionDescription \in {Some(d) : d \in Descriptions}
    /\ actionPath = <<>>

CallGenerateActionPath ==
    /\ actionPath = <<>>
    /\ actionPath' = Some(GenerateActionPath(actionDescription[1]))
    /\ UNCHANGED <<scoreVars, classifyVars, dataVars, parseVars, pipeVars, configVars,
                   batchVars, actionDescription>>

NextPath == CallGenerateActionPath

SpecPath == InitPath /\ [][NextPath]_vars

\* ------------------------------------------------------------------------
\* SpecTypes: the type-detection batch run (examples/detect_integration_types.py)
\* ------------------------------------------------------------------------

\* The data rows of a sheet, as the Sheets API hands them out: cells are
\* strings and trailing empty cells are left out.
TypeRows ==
    { << <<>>, <<"H","u","b","s","p","o","t">>, <<>>, <<"L","o","g"," ","a"," ","c","a","l","l">> >>,
      << <<>>, <<"I","n","t","e","r","c","o","m">>, <<" ">>, <<"S","e","n","d">> >>,
      << <<>>, <<"S","l","a","c","k">>, <<"R","E","S","T"," ","A","P","I">>, <<"P","o","s","t">> >>,
      << <<>>, <<"S","h","o","r","t">> >> }

\* The positions k of the data rows that satisfy Keep, as row numbers k + 1
\* (`enumerate(rows[1:], start=2)`), in sheet order.
RECURSIVE RowNumbers(_, _)
RowNumbers(flags, k) ==
    IF k > Len(flags) THEN <<>>
    ELSE (IF flags[k] THEN <<k + 1>> ELSE <<>>) \o RowNumbers(flags, k + 1)

\* GoogleSheetsHandler.get_rows_without_type: the row numbers of the rows
\* with at least four cells whose third cell is blank.
RowsWithoutType(data) ==
    RowNumbers([k \in 1..Len(data) |->
                   Len(data[k]) >= 4 /\ (Len(data[k]) < 3 \/ Strip(data[k][3]) = <<>>)], 1)

\* The frame of everything outside the batch runs.
batchFrame ==
    <<scoreVars, classifyVars, dataVars, parseVars, pipeVars, configVars, pathVars, job, sheet, todo>>

InitTypes ==
    /\ ScoreIdle
    /\ ClassifyIdle
    /\ DataIdle
    /\ ParseIdle
    /\ PipeIdle
    /\ ConfigIdle
    /\ PathIdle
    /\ job = "types"
    /\ sheet \in SeqUpTo(TypeRows, MaxRows)
    /\ todo = RowsWithoutType(sheet)
    /\ cursor = 1
    /\ step = IF todo = <<>> THEN "done" ELSE "determine_type"
    /\ events = <<>>

\* The loop goes on with the next selected row, or ends after the last one.
NextRow(first) ==
    /\ cursor' = cursor + 1
    /\ step' = IF cursor + 1 > Len(todo) THEN "done" ELSE first

\* `await detector.determine_type(...)` returns the type.
DetermineTypeReturns ==
    /\ job = "types"
    /\ step = "determine_type"
    /\ events' = Append(events, <<"determine_type", todo[cursor], "returned">>)
    /\ step' = "update_integration_type"
    /\ UNCHANGED <<batchFrame, cursor>>

\* A loop without its try block: the exception of determine_type ends main.
DetermineTypeRaisesEndsRun ==
    /\ job = "types"
    /\ step = "determine_type"
    /\ events' = Append(events, <<"determine_type", todo[cursor], "raised">>)
    /\ step' = "done"
    /\ UNCHANGED <<batchFrame, cursor>>

\* determine_type raises (it logs and raises again); `except Exception`
\* of the loop logs and continues.
DetermineTypeRaises ==
    /\ job = "types"
    /\ step = "determine_type"
    /\ events' = Append(events, <<"determine_type", todo[cursor], "raised">>)
    /\ NextRow("determine_type")
    /\ UNCHANGED batchFrame

\* sheets_handler.update_integration_type(row.row_number, integration_type)
\* returns, or raises HttpError, which the loop's except block takes.
UpdateIntegrationTypeEnds(outcome) ==
    /\ job = "types"
    /\ step = "update_integration_type"
    /\ events' = Append(events, <<"update_integration_type", todo[cursor], outcome>>)
    /\ NextRow("determine_type")
    /\ UNCHANGED batchFrame

NextTypes ==
    \/ DetermineTypeReturns
    \/ DetermineTypeRaises
    \/ \E outcome \in {"returned", "raised"} : UpdateIntegrationTypeEnds(outcome)

SpecTypes == InitTypes /\ [][NextTypes]_vars

\* ------------------------------------------------------------------------
\* SpecCreate: the integration-creation batch run
\* (examples/create_integrations_sheets.py)
\* ------------------------------------------------------------------------

\* The data rows of the sheet of the creation run: the first cell is the
\* checkbox.
CreateRows ==
    { << <<"F","A","L","S","E">>, <<"H","u","b","s","p","o","t">>, <<"R","E","S","T"," ","A","P","I">>, <<"L","o","g"," ","a"," ","c","a","l","l">> >>,
      << <<>>, <<"I","n","t","e","r","c","o","m">>, <<"W","e","b","h","o","o","k">>, <<"S","e","n","d">> >>,
      << <<"T","R","U","E">>, <<"S","l","a","c","k">>, <<"R","E","S","T"," ","A","P","I">>, <<"P","o","s","t">> >>,
      << <<"F","A","L","S","E">>, <<"S","h","o","r","t">> >> }

\* GoogleSheetsProcessor.get_unprocessed_rows: the row numbers of the rows
\* with at least four cells whose first cell is empty or "FALSE".
UnprocessedRows(data) ==
    RowNumbers([k \in 1..Len(data) |->
                   Len(data[k]) >= 4 /\ (data[k][1] = <<>> \/ data[k][1] = <<"F","A","L","S","E">>)], 1)

InitCreate ==
    /\ ScoreIdle
    /\ ClassifyIdle
    /\ DataIdle
    /\ ParseIdle
    /\ PipeIdle
    /\ ConfigIdle
    /\ PathIdle
    /\ job = "create"
    /\ sheet \in SeqUpTo(CreateRows, MaxRows)
    /\ todo = UnprocessedRows(sheet)
    /\ cursor = 1
    /\ step = IF todo = <<>> THEN "done" ELSE "create_integration"
    /\ events = <<>>

\* A loop body that marks the row before it looks at the status of the
\* result.
CreateIntegrationReturnsThenMarks(status) ==
    /\ job = "create"
    /\ step = "create_integration"
    /\ events' = Append(events, <<"create_integration", todo[cursor], status>>)
    /\ step' = "mark_row_complete"
    /\ UNCHANGED <<batchFrame, cursor>>

\* `result = await agent.create_integration(request)` returns its dict: with
\* status "success" the body goes on to the integration test and the mark,
\* with status "error" it logs, prints and is over.
CreateIntegrationReturns(status) ==
    /\ job = "create"
    /\ step = "create_integration"
    /\ events' = Append(events, <<"create_integration", todo[cursor], status>>)
    /\ IF status = "success"
       THEN step' = "integration_test" /\ UNCHANGED cursor
       ELSE NextRow("create_integration")
    /\ UNCHANGED batchFrame

\* create_integration raises; `except Exception` of the loop logs and
\* continues.
CreateIntegrationRaises ==
    /\ job = "create"
    /\ step = "create_integration"
    /\ events' = Append(events, <<"create_integration", todo[cursor], "raised">>)
    /\ NextRow("create_integration")
    /\ UNCHANGED batchFrame

\* The integration test: skipped without credentials for the service, else
\* run inside a try block of its own, which takes its failure.
IntegrationTestEnds(outcome) ==
    /\ job = "create"
    /\ step = "integration_test"
    /\ events' = Append(events, <<"integration_test", todo[cursor], outcome>>)
    /\ step' = "mark_row_complete"
    /\ UNCHANGED <<batchFrame, cursor>>

\* sheets_processor.mark_row_complete(row['row_number']) returns, or raises
\* HttpError, which the loop's except block takes.
MarkRowCompleteEnds(outcome) ==
    /\ job = "create"
    /\ step = "mark_row_complete"
    /\ events' = Append(events, <<"mark_row_complete", todo[cursor], outcome>>)
    /\ NextRow("create_integration")
    /\ UNCHANGED batchFrame

NextCreate ==
    \/ \E status \in {"success", "error"} : CreateIntegrationReturns(status)
    \/ CreateIntegrationRaises
    \/ \E outcome \in {"skipped", "passed", "failed"} : IntegrationTestEnds(outcome)
    \/ \E outcome \in {"returned", "raised"} : MarkRowCompleteEnds(outcome)

SpecCreate == InitCreate /\ [][NextCreate]_vars

\* ------------------------------------------------------------------------
\* Properties of the scorers (SpecScore)
\* ------------------------------------------------------------------------

\* The hit of a recorded call.
HitOf(c) == [url |-> c.url, content |-> content]

\* The classifier the scorer in use applies to a hit's URL.
ScorerSaysDocumentation(url) ==
    IF scorer = "basic" THEN IsDocumentationUrl(url) ELSE EnhancedIsDocumentationUrl(url)

\* The sum the scorer in use reached before its min().
ScorerRaw(c) ==
    IF scorer = "basic" THEN RawRelevance(HitOf(c), request[1])
    ELSE EnhancedRawRelevance(HitOf(c), context)

\* C1: every score returned by either scorer lies in [0.0, 1.0], whatever
\* number of signals matched.
C1_ScoreBounded ==
    \A c \in scored : FLe(F00, c.score) /\ FLe(c.score, F10)

\* C1 witness: the basic scorer returned 1.0 for a hit whose additions sum
\* to more than 1.0 (documentation URL and all seven keywords found).
C1_Witness ==
    /\ scorer = "basic"
    /\ \E c \in scored : FLt(F10, ScorerRaw(c)) /\ c.score = F10

\* d added n times to x, one addition after the other.
RECURSIVE AddTimes(_, _, _)
AddTimes(x, d, n) == IF n = 0 THEN x ELSE AddTimes(FAdd(x, d), d, n - 1)

\* The distinct keywords of the request that occur in the lower-cased content.
DistinctKeywordsFound ==
    LET keywords == Keywords(request[1])
    IN  {keywords[i] : i \in {j \in 1..Len(keywords) : Contains(Lower(content), keywords[j])}}

\* C6: in the keyword pass of the basic scorer each distinct keyword adds
\* at most one 0.1: the score is at most the base plus 0.1 per distinct
\* keyword found, clamped at 1.0.
C6_OncePerDistinctKeyword ==
    scorer = "basic" =>
        \A c \in scored :
            FLe(c.score,
                FMin(AddTimes(IF IsDocumentationUrl(c.url) THEN F04 ELSE F00, F01,
                              Cardinality(DistinctKeywordsFound)), F10))

\* The clamp at 1.0 applies to the call c: its additions exceed 1.0.
ClampApplies(c) == FLt(F10, ScorerRaw(c))

\* The exact value x - y - 0.4 lies within 2^-52 of zero (x >= y).
WithinRoundingOfBonus(x, y) ==
    LET b  == IF x[2] < y[2] THEN 1 ELSE 0
        dh == x[1] - y[1] - b
        dl == x[2] - y[2] + b * Limb
    IN  /\ FLe(<<F04[1], F04[2] - 32>>, <<dh, dl>>)
        /\ FLe(<<dh, dl>>, <<F04[1], F04[2] + 32>>)

\* C7 as stated: for the same content and request/context, the hit with
\* the documentation URL scores at least the hit with the other URL, and
\* the two scores differ by exactly 0.4 unless the clamp applies.
C7_BonusExactly04 ==
    \A c1, c2 \in scored :
        (ScorerSaysDocumentation(c1.url) /\ ~ScorerSaysDocumentation(c2.url)) =>
            /\ FLe(c2.score, c1.score)
            /\ ClampApplies(c1) \/ FSub(c1.score, c2.score) = F04

\* C7 as amended: the documentation hit scores at least the other hit, and
\* unless the clamp applies the two scores differ by 0.4 up to the rounding
\* of the float additions (at most 2^-52).
C7_BonusUpToRounding ==
    \A c1, c2 \in scored :
        (ScorerSaysDocumentation(c1.url) /\ ~ScorerSaysDocumentation(c2.url)) =>
            /\ FLe(c2.score, c1.score)
            /\ ClampApplies(c1) \/ WithinRoundingOfBonus(c1.score, c2.score)

\* C7 witness: one content scored under a documentation URL and under
\* another URL, with keywords found and no clamp.
C7_Witness ==
    \E c1, c2 \in scored :
        /\ ScorerSaysDocumentation(c1.url) /\ ~ScorerSaysDocumentation(c2.url)
        /\ ~ClampApplies(c1)
        /\ FLt(F00, c2.score)

\* ------------------------------------------------------------------------
\* Properties of the URL classifiers (SpecClassify)
\* ------------------------------------------------------------------------

\* The marker set of the classifier in use.
MarkersInUse == IF classifier = "agent" THEN DocIndicators ELSE EnhancedDocIndicators

\* C8: the classifier is case-insensitive -- the verdict on u equals the
\* verdict on u.upper() -- and a verdict is true exactly when the
\* lower-cased argument contains one of the markers.
C8_CaseInsensitive ==
    /\ \A v1, v2 \in verdicts : v1.verdict = v2.verdict
    /\ \A v \in verdicts :
         v.verdict = (\E m \in MarkersInUse : Contains(Lower(IF v.upper THEN Upper(rawUrl) ELSE rawUrl), m))

\* ------------------------------------------------------------------------
\* Properties of the data classes (SpecData)
\* ------------------------------------------------------------------------

\* C10: no SearchResult with a relevance_score outside [0.0, 1.0] comes out
\* of the constructor.
C10_OutOfRangeRejected ==
    built # <<>> =>
        FLe(F00, built[1].relevance_score) /\ FLe(built[1].relevance_score, F10)

\* ------------------------------------------------------------------------
\* Properties of the rankers and of create_integration (Spec)
\* ------------------------------------------------------------------------

\* The ranker has just returned: its frame is still in place.
RankerJustReturned == ranker = "returned" /\ pc = "llm" /\ stage = 1

\* The scores of the hits under each implementation and request: the basic
\* scorer for agent.py, the richer one (called without context) for
\* search.py.
ScoreOfHit ==
    [i \in {"agent", "search"} |->
        [r \in PipelineRequests |->
            [h \in {Hit[n] : n \in DOMAIN Hit} |->
                IF i = "agent" THEN CalculateRelevance(h, r)
                ELSE EnhancedCalculateRelevance(h, <<>>)]]]

\* The score the implementation in use gives a raw hit.
ImplScore(h) == ScoreOfHit[impl][request[1]][h]

\* The classifier the implementation in use applies to a hit's URL.
ImplSaysDocumentation(u) ==
    IF impl = "agent" THEN IsDocumentationUrl(u) ELSE EnhancedIsDocumentationUrl(u)

RECURSIVE Flatten(_)
Flatten(ss) == IF ss = <<>> THEN <<>> ELSE Head(ss) \o Flatten(Tail(ss))

\* The raw hits of all queries in the order they were received: query
\* order first, then hit order within a query.
MergeSequence == HitsOf(Flatten(raw))

\* The raw hit a SearchResult was made from.
RawOf(res) == [url |-> res.url, content |-> res.content]

\* How many entries of the sequence s satisfy s[i] = x.
Count(s, x) == Cardinality({i \in 1..Len(s) : s[i] = x})

C3_SortedStable ==
    RankerJustReturned =>
        LET out   == ranked[1]
            merge == MergeSequence
        IN  /\ \A i \in 1..(Len(out) - 1) :
                 FLe(out[i + 1].relevance_score, out[i].relevance_score)
            /\ \A v \in {out[k].relevance_score : k \in 1..Len(out)} :
                 LET same == SelectSeq(out, LAMBDA x : x.relevance_score = v)
                 IN  /\ same = SelectSeq(results, LAMBDA x : x.relevance_score = v)
                     /\ [i \in 1..Len(same) |-> RawOf(same[i])]
                          = SelectSeq(merge, LAMBDA h : ImplScore(h) = v)

\* C3 witness: a ranker returned a list in which two different hits of one
\* score appear, built from an accumulator that was not in descending order.
C3_Witness ==
    /\ RankerJustReturned
    /\ \E i, j \in 1..Len(ranked[1]) :
         /\ i < j
         /\ ranked[1][i].relevance_score = ranked[1][j].relevance_score
         /\ ranked[1][i].url # ranked[1][j].url
    /\ \E i, j \in 1..Len(results) :
         i < j /\ FLt(results[i].relevance_score, results[j].relevance_score)

\* C4 as stated: in agent.py a failing search call does not abort the
\* ranking -- the ranker still runs or returns.
C4_FailureDoesNotAbort ==
    (impl = "agent" /\ failed # {}) => ranker \in {"running", "returned"}

\* C4 as amended: in agent.py a failing search call aborts the ranking.  The
\* exception leaves the ranker, which returns no list; no later query is
\* issued; create_integration ends with status "error".
C4_FailureAborts ==
    (impl = "agent" /\ failed # {}) =>
        /\ ranker = "raised"
        /\ ranked = <<>>
        /\ \E q \in 1..Len(SearchQueries(request[1])) :
             /\ failed = {q}
             /\ Len(calls) = q
             /\ \A k \in 1..q : calls[k] = <<"search", SearchQueries(request[1])[k]>>
        /\ pc = "done"
        /\ result # <<>>
        /\ result[1].status = "error"
        /\ "documentation_sources" \notin DOMAIN result[1]

\* C4 witness: in agent.py the search call of the third query failed after
\* the first two had answered.
C4_Witness ==
    /\ impl = "agent"
    /\ failed = {3}
    /\ Len(calls) = 3
    /\ ranker = "raised"

\* create_integration of agent.py ran all its steps: three searches, four
\* language-model calls and the save.
AllStepsRan ==
    /\ Len(calls) = Len(SearchQueries(request[1])) + Len(LlmStages(impl)) + 1
    /\ files = FileOrder

\* C5: create_integration never raises to its caller.  Every result it
\* returns has status "success" or "error"; an error result carries the key
\* "error"; a call in which the search step or a later step failed returns
\* an error result (a success result means every step ran).
C5_NeverRaises ==
    /\ raised = <<>>
    /\ pc = "done" =>
         /\ result # <<>>
         /\ result[1].status \in {"success", "error"}
         /\ result[1].status = "error" => "error" \in DOMAIN result[1]
         /\ (impl = "agent" /\ failed # {}) => result[1].status = "error"
         /\ (impl = "agent" /\ result[1].status = "success") => AllStepsRan

\* C5 witness: create_integration of agent.py returned an error result
\* after its search step failed.
C5_Witness ==
    /\ impl = "agent"
    /\ pc = "done"
    /\ failed # {}
    /\ result # <<>>
    /\ result[1].status = "error"
    /\ "error" \in DOMAIN result[1]

ReturnedFrom(op) == called # <<>> /\ called[1].op = op /\ called[1].returned # <<>>

\* s.split(): the maximal runs of non-whitespace characters of s.
RECURSIVE WhitespaceTokens(_)
WhitespaceTokens(s) ==
    LET rest == LStrip(s)
    IN  IF rest = <<>> THEN <<>>
        ELSE LET stop == IF \E k \in 1..Len(rest) : rest[k] \in Whitespace
                         THEN CHOOSE k \in 1..Len(rest) :
                                  /\ rest[k] \in Whitespace
                                  /\ \A j \in 1..(k - 1) : rest[j] \notin Whitespace
                         ELSE Len(rest) + 1
             IN  <<SubSeq(rest, 1, stop - 1)>> \o WhitespaceTokens(SubSeq(rest, stop, Len(rest)))

\* The first div of class "endpoint" of the page, and the h3 heading in it.
FirstEndpointBlock == FindClass(page[1], {"div"}, C_endpoint)

FirstEndpointHeading ==
    IF FirstEndpointBlock = <<>> THEN <<>> ELSE Find(FirstEndpointBlock[1], "h3")

\* C11: every Endpoint _extract_endpoints produces has a non-empty method
\* and a non-empty path, the first and the second whitespace-separated token
\* of the heading's text.
C11_MethodAndPathTokens ==
    ReturnedFrom("_extract_endpoints") =>
        \A i \in 1..Len(called[1].returned[1]) :
            LET endpoint == called[1].returned[1][i]
                tokens == WhitespaceTokens(GetText(FirstEndpointHeading[1]))
            IN  /\ endpoint.method # <<>>
                /\ endpoint.path # <<>>
                /\ Len(tokens) >= 2
                /\ endpoint.method = tokens[1]
                /\ endpoint.path = tokens[2]

\* C12: _extract_endpoints returns at most one Endpoint, the one of the
\* first div of class "endpoint" alone; without such a div, without an h3 in
\* it or with fewer than two tokens in its heading the result is empty,
\* whatever follows.
C12_FirstBlockOnly ==
    ReturnedFrom("_extract_endpoints") =>
        LET endpoints == called[1].returned[1]
        IN  /\ Len(endpoints) <= 1
            /\ FirstEndpointBlock = <<>> => endpoints = <<>>
            /\ FirstEndpointBlock # <<>> =>
                 /\ endpoints = EndpointsOf(FirstEndpointBlock[1])
                 /\ FirstEndpointHeading = <<>> => endpoints = <<>>
                 /\ (/\ FirstEndpointHeading # <<>>
                     /\ Len(WhitespaceTokens(GetText(FirstEndpointHeading[1]))) < 2)
                        => endpoints = <<>>

\* C12 witness: _extract_endpoints returned the empty list for a page whose
\* first endpoint block has a one-token heading and whose second endpoint
\* block is well formed.
C12_Witness ==
    /\ ReturnedFrom("_extract_endpoints")
    /\ called[1].returned[1] = <<>>
    /\ Len(page[1].children) >= 2
    /\ FirstEndpointBlock = Some(page[1].children[1])
    /\ FirstEndpointHeading # <<>>
    /\ HasClass(page[1].children[2], C_endpoint)
    /\ EndpointsOf(page[1].children[2]) # <<>>

\* The code elements below a node, in document order.
CodeElements(n) == SelectSeq(Descendants(n), LAMBDA x : x.tag = "code")

\* The strings below a node, each stripped, without the empty ones.
StrippedStrings(n) ==
    SelectSeq([i \in 1..Len(Strings(n)) |-> Strip(Strings(n)[i])], LAMBDA x : x # <<>>)

\* C13 as stated: the mapping is empty when the page has no element of
\* class "authentication"; otherwise instructions is the trimmed text of
\* the first such element, type is "API Key" exactly when that phrase is
\* in its text (None otherwise), and example is there exactly when it holds
\* a code element (the trimmed text of the first one).
C13_AuthenticationOfAnyElement ==
    ReturnedFrom("_extract_authentication") =>
        LET auth_info == called[1].returned[1]
            section == SelectClass(page[1], C_authentication)
        IN  /\ section = <<>> => DOMAIN auth_info = {}
            /\ section # <<>> =>
                 /\ {"instructions", "type"} \subseteq DOMAIN auth_info
                 /\ auth_info.instructions = Strip(GetText(section[1]))
                 /\ auth_info.type =
                        IF Contains(GetText(section[1]), W_API_Key)
                        THEN Some(W_API_Key) ELSE <<>>
                 /\ "example" \in DOMAIN auth_info <=> CodeElements(section[1]) # <<>>
                 /\ "example" \in DOMAIN auth_info =>
                        auth_info.example = Strip(GetText(CodeElements(section[1])[1]))

\* C13 as amended: the mapping is empty when the page has no div of class
\* "authentication"; otherwise, for the first such div, instructions is the
\* concatenation of its non-empty trimmed strings, type is "API Key"
\* exactly when that phrase is in its untrimmed text (None otherwise), and
\* example is there exactly when the div holds a code element (the
\* concatenated trimmed strings of the first one).
C13_AuthenticationOfFirstDiv ==
    ReturnedFrom("_extract_authentication") =>
        LET auth_info == called[1].returned[1]
            divs == SelectSeq(Descendants(page[1]),
                              LAMBDA x : x.tag = "div" /\ HasClass(x, C_authentication))
        IN  /\ divs = <<>> => DOMAIN auth_info = {}
            /\ divs # <<>> =>
                 /\ {"instructions", "type"} \subseteq DOMAIN auth_info
                 /\ DOMAIN auth_info \subseteq {"instructions", "type", "example"}
                 /\ auth_info.instructions = Join(StrippedStrings(divs[1]))
                 /\ auth_info.type # <<>> <=> Contains(GetText(divs[1]), W_API_Key)
                 /\ auth_info.type # <<>> => auth_info.type = Some(W_API_Key)
                 /\ "example" \in DOMAIN auth_info <=> CodeElements(divs[1]) # <<>>
                 /\ "example" \in DOMAIN auth_info =>
                        auth_info.example = Join(StrippedStrings(CodeElements(divs[1])[1]))

\* C13 witness: _extract_authentication returned type "API Key" and the
\* example of the first of two code elements of an authentication div.
C13_Witness ==
    /\ ReturnedFrom("_extract_authentication")
    /\ "example" \in DOMAIN called[1].returned[1]
    /\ called[1].returned[1].type = Some(W_API_Key)
    /\ \E i \in 1..Len(page[1].children) :
         /\ page[1].children[i].tag = "div"
         /\ HasClass(page[1].children[i], C_authentication)
         /\ Len(CodeElements(page[1].children[i])) = 2
         /\ called[1].returned[1].example =
                Strip(GetText(CodeElements(page[1].children[i])[1]))

\* The part of s behind the first occurrence of t (t occurs in s).
After(s, t) ==
    LET at == CHOOSE i \in 1..(Len(s) - Len(t) + 1) :
                  /\ SubSeq(s, i, i + Len(t) - 1) = t
                  /\ \A j \in 1..(i - 1) : SubSeq(s, j, j + Len(t) - 1) # t
    IN  SubSeq(s, at + Len(t), Len(s))

\* The first class token of a node that contains "language-".
LanguageToken(n) ==
    n.class[CHOOSE i \in 1..Len(n.class) :
                /\ Contains(n.class[i], W_language)
                /\ \A j \in 1..(i - 1) : ~Contains(n.class[j], W_language)]

\* The positions, in document order, of the pre elements of the page with a
\* class token containing "language-".
LanguageBlockPositions ==
    LET all == Descendants(page[1])
    IN  SelectSeq([i \in 1..Len(all) |-> i],
                  LAMBDA i : all[i].tag = "pre"
                             /\ \E k \in 1..Len(all[i].class) :
                                    Contains(all[i].class[k], W_language))

\* C14: _extract_code_examples yields one CodeExample per pre element with
\* a class token containing "language-", in document order, and its
\* language is the text behind "language-" in the first such class token.
C14_LanguageOfFirstMatchingToken ==
    ReturnedFrom("_extract_code_examples") =>
        LET examples == called[1].returned[1]
            all == Descendants(page[1])
            at == LanguageBlockPositions
        IN  /\ Len(examples) = Len(at)
            /\ \A k \in 1..Len(at) :
                 /\ examples[k].code = GetTextStripped(all[at[k]])
                 /\ examples[k].language = After(LanguageToken(all[at[k]]), W_language)

\* C15: the description of every extracted code example is the trimmed text
\* of the nearest paragraph or heading element before the code container in
\* document order, and None exactly when there is none.
C15_NearestParagraphOrHeading ==
    ReturnedFrom("_extract_code_examples") =>
        LET examples == called[1].returned[1]
            all == Descendants(page[1])
            at == LanguageBlockPositions
        IN  \A k \in 1..Len(at) :
                k <= Len(examples) =>
                    LET before == {j \in 1..(at[k] - 1) :
                                      all[j].tag \in {"p", "h1", "h2", "h3", "h4", "h5", "h6"}}
                    IN  IF before = {} THEN examples[k].description = <<>>
                        ELSE examples[k].description =
                                 Some(Strip(GetText(
                                     all[CHOOSE j \in before : \A i \in before : i <= j])))

\* The reference of C16 for a code container n.
ReferenceLanguage(n) ==
    LET text == Lower(GetText(n))
    IN  IF \E i \in 1..Len(n.class) : Contains(n.class[i], W_language)
        THEN After(LanguageToken(n), W_language)
        ELSE IF Contains(text, W_import) /\ (Contains(text, W_def) \/ Contains(text, W_class))
        THEN L_python
        ELSE IF Contains(text, <<"{">>) /\ (Contains(text, <<":">>) \/ Contains(text, <<"=">>))
        THEN L_json
        ELSE IF Contains(text, <<"<">>) /\ Contains(text, <<">">>)
        THEN L_xml
        ELSE L_unknown

\* C16: _detect_language returns, for every code container, the text behind
\* "language-" in the first class token containing it, and otherwise
\* "python", "json", "xml" or "unknown" by the first content check that
\* matches on the lower-cased text.
C16_DetectLanguageReference ==
    (called # <<>> /\ called[1].op = "_detect_language") =>
        /\ called[1].raised = <<>>
        /\ called[1].returned = Some(ReferenceLanguage(page[1]))

\* C17: _extract_title never raises; it returns the title element's text
\* when there is a title element, otherwise the trimmed text of the first
\* match among h1, class "page-title" and class "documentation-title",
\* otherwise None.
C17_TitleNeverRaises ==
    (called # <<>> /\ called[1].op = "_extract_title") =>
        LET title == Find(page[1], "title")
            h1 == Find(page[1], "h1")
            page_title == SelectClass(page[1], C_page_title)
            documentation_title == SelectClass(page[1], C_documentation_title)
        IN  /\ called[1].raised = <<>>
            /\ called[1].returned =
                 Some(IF title # <<>> THEN Some(Strip(GetText(title[1])))
                      ELSE IF h1 # <<>> THEN Some(Strip(GetText(h1[1])))
                      ELSE IF page_title # <<>> THEN Some(Strip(GetText(page_title[1])))
                      ELSE IF documentation_title # <<>>
                      THEN Some(Strip(GetText(documentation_title[1])))
                      ELSE <<>>)

\* parse_documentation was called and the page was fetched.
ParsedFetchedPage ==
    called # <<>> /\ called[1].op = "parse_documentation" /\ called[1].fetch = "ok"

\* C18: when the fetch succeeds parse_documentation returns a record with
\* exactly the keys title, overview, endpoints, authentication, examples; a
\* missing section gives None, [] or {}, and every section is extracted
\* whatever other sections are missing.
C18_RecordOfFetchedPage ==
    ParsedFetchedPage =>
        /\ called[1].raised = <<>>
        /\ called[1].returned # <<>>
        /\ LET record == called[1].returned[1]
               soup == page[1]
           IN  /\ DOMAIN record = {"title", "overview", "endpoints", "authentication", "examples"}
               /\ Find(soup, "title") = <<>> => record.title = <<>>
               /\ SelectClass(soup, C_introduction) = <<>> => record.overview = <<>>
               /\ SelectClass(soup, C_endpoint) = <<>> => record.endpoints = <<>>
               /\ SelectClass(soup, C_authentication) = <<>> => DOMAIN record.authentication = {}
               /\ LanguageBlockPositions = <<>> => record.examples = <<>>
               /\ record.endpoints = ExtractEndpoints(soup)
               /\ record.authentication = ExtractAuthentication(soup)
               /\ record.examples = ExtractCodeExamples(soup)

\* C18 witness: parse_documentation returned the endpoint of a page that
\* has no title, no introduction, no authentication section and no code
\* example.
C18_Witness ==
    /\ ParsedFetchedPage
    /\ called[1].returned # <<>>
    /\ "endpoints" \in DOMAIN called[1].returned[1]
    /\ called[1].returned[1].endpoints # <<>>
    /\ called[1].returned[1].title = <<>>
    /\ called[1].returned[1].overview = <<>>
    /\ DOMAIN called[1].returned[1].authentication = {}
    /\ called[1].returned[1].examples = <<>>

\* C19: the overview of the record parse_documentation returns is the one
\* _extract_overview finds on the page: the trimmed text of the first
\* present among class "introduction", class "overview", id "overview" and
\* the first paragraph of a main-role section, None without any of them.
C19_OverviewFollowsChain ==
    ParsedFetchedPage =>
        /\ called[1].returned # <<>>
        /\ "overview" \in DOMAIN called[1].returned[1]
        /\ called[1].returned[1].overview = ExtractOverview(page[1])

\* C20: when fetching the page fails, parse_documentation raises.
C20_FetchFailureRaises ==
    (called # <<>> /\ called[1].op = "parse_documentation" /\ called[1].fetch = "failed") =>
        called[1].raised # <<>>

ListsOf(h, c) ==
    [include_domains |-> h[c.include_domains], exclude_domains |-> h[c.exclude_domains]]

\* The list objects the SearchConfig c got from its own __post_init__.
OwnLists(c) ==
    (IF c.given.include_domains = <<>> THEN {c.include_domains} ELSE {})
        \cup (IF c.given.exclude_domains = <<>> THEN {c.exclude_domains} ELSE {})

\* The list objects the caller handed to the SearchConfig c.
GivenLists(c) ==
    {c.given.include_domains[i] : i \in DOMAIN c.given.include_domains}
        \cup {c.given.exclude_domains[i] : i \in DOMAIN c.given.exclude_domains}

\* C22: a SearchConfig built without include_domains / exclude_domains has
\* include_domains = [".io", ".com", ".dev", ".org"] and exclude_domains = [];
\* explicitly supplied lists are kept as given; and appending to a list that a
\* SearchConfig got by default changes no other SearchConfig (but one the
\* caller built with that very list as its argument).
C22_DefaultListsNotShared ==
    [][ /\ \A k \in DOMAIN configs' :
              k \notin DOMAIN configs =>
                  LET c == configs'[k]
                  IN  /\ c.given.include_domains = <<>> =>
                             heap'[c.include_domains] = <<".io", ".com", ".dev", ".org">>
                      /\ c.given.exclude_domains = <<>> => heap'[c.exclude_domains] = <<>>
                      /\ c.given.include_domains # <<>> =>
                             c.include_domains = c.given.include_domains[1]
                      /\ c.given.exclude_domains # <<>> =>
                             c.exclude_domains = c.given.exclude_domains[1]
        /\ \A id \in DOMAIN heap :
              heap'[id] # heap[id] =>
                  \A k \in DOMAIN configs :
                      id \in OwnLists(configs[k]) =>
                          \A other \in DOMAIN configs \ {k} :
                              id \notin GivenLists(configs[other]) =>
                              ListsOf(heap', configs[other]) = ListsOf(heap, configs[other]) ]_vars

\* C22 witness: two SearchConfig objects were built without arguments, the
\* include_domains list of the first was appended to before the second was
\* built, and the second reads the defaults.
C22_Witness ==
    /\ Len(configs) >= 2
    /\ configs[1].given = [include_domains |-> <<>>, exclude_domains |-> <<>>]
    /\ configs[2].given = [include_domains |-> <<>>, exclude_domains |-> <<>>]
    /\ Len(heap[configs[1].include_domains]) = 5
    /\ Len(heap[configs[1].exclude_domains]) = 1
    /\ heap[configs[2].include_domains] = <<".io", ".com", ".dev", ".org">>
    /\ heap[configs[2].exclude_domains] = <<>>

\* ------------------------------------------------------------------------
\* Properties of the order of the steps (Spec)
\* ------------------------------------------------------------------------

\* The search calls issued so far, in order.
SearchCalls == SelectSeq(calls, LAMBDA c : c[1] = "search")

\* What the ranker in use appends to `results` for the response of query k.
ProcessedOf(k) ==
    IF impl = "agent" THEN AgentProcessed[request[1]][raw[k]] ELSE EnhancedProcessed[raw[k]]

\* C23: the ranker issues one search call per query, in the fixed order
\* documentation, API reference, developer guides; it issues the call of a
\* query only when the responses of all earlier queries have been received
\* and processed; and the list it returns is determined by the responses in
\* query order (their hits' scores, query order and hit order).
C23_OneCallPerQueryInOrder ==
    /\ Len(SearchCalls) <= Len(SearchQueries(request[1]))
    /\ \A k \in 1..Len(SearchCalls) : SearchCalls[k] = <<"search", SearchQueries(request[1])[k]>>
    /\ pc = "search" =>
         /\ Len(SearchCalls) = Len(raw)
         /\ qi = Len(raw) + 1
         /\ results = Flatten([k \in 1..Len(raw) |-> ProcessedOf(k)])
    /\ pc = "search_wait" => Len(SearchCalls) = Len(raw) + 1 /\ qi = Len(SearchCalls)
    /\ RankerJustReturned =>
         /\ Len(SearchCalls) = Len(SearchQueries(request[1]))
         /\ Len(raw) = Len(SearchCalls)
         /\ ranked[1] = SortedDescending(Flatten([k \in 1..Len(raw) |-> ProcessedOf(k)]))

\* C23 witness: the ranker of agent.py returned a list of several results
\* after three search calls, of which the first and the last brought hits.
C23_Witness ==
    /\ impl = "agent"
    /\ RankerJustReturned
    /\ Len(SearchCalls) = 3
    /\ raw[1] # <<>>
    /\ raw[3] # <<>>
    /\ Len(ranked[1]) >= 2

\* The external calls of a complete create_integration of agent.py, in order.
StepsInOrder ==
    [k \in 1..Len(SearchQueries(request[1])) |-> <<"search", SearchQueries(request[1])[k]>>]
        \o [k \in 1..Len(LlmStages("agent")) |-> <<"llm", LlmStages("agent")[k]>>]
        \o << <<"save">> >>

\* The language-model calls issued so far, in order.
LlmCalls == SelectSeq(calls, LAMBDA c : c[1] = "llm")

\* C24: create_integration of agent.py runs search, analysis, code
\* generation, README, pyproject and save in this order, each step after the
\* one before it has completed; files are written only after all four
\* language-model calls answered; status "success" is returned only after
\* the save, with saved_files holding exactly integration.py, README.md and
\* pyproject.toml.
C24_StepsInStrictOrder ==
    impl = "agent" =>
        /\ Len(calls) <= Len(StepsInOrder)
        /\ \A k \in 1..Len(calls) : calls[k] = StepsInOrder[k]
        /\ pc = "llm" =>
             /\ ranker = "returned"
             /\ Len(LlmCalls) = stage - 1
             /\ Len(texts) = stage - 1
        /\ pc = "llm_wait" => Len(LlmCalls) = stage /\ Len(texts) = stage - 1
        /\ pc = "save" =>
             /\ Len(texts) = Len(LlmStages("agent"))
             /\ integration # <<>>
             /\ files = <<>>
        /\ files # <<>> => Len(calls) = Len(StepsInOrder)
        /\ (result # <<>> /\ result[1].status = "success") =>
             /\ Len(calls) = Len(StepsInOrder)
             /\ files = <<"integration.py", "README.md", "pyproject.toml">>
             /\ DOMAIN result[1].saved_files = {"integration.py", "README.md", "pyproject.toml"}

\* C24 witness: create_integration of agent.py returned status "success"
\* after all eight steps.
C24_Witness ==
    /\ impl = "agent"
    /\ pc = "done"
    /\ result # <<>>
    /\ result[1].status = "success"
    /\ Len(calls) = 8
    /\ Len(files) = 3

\* ------------------------------------------------------------------------
\* Properties of _generate_action_path (SpecPath)
\* ------------------------------------------------------------------------

\* C25: _generate_action_path returns a valid directory name for every
\* description: a non-empty string of alphanumeric characters and
\* underscores that neither starts nor ends with an underscore; "Log a call
\* to a Company in Hubspot" gives "log_call_company".
C25_ValidDirectoryName ==
    actionPath # <<>> =>
        LET name == actionPath[1]
        IN  /\ name # <<>>
            /\ \A i \in 1..Len(name) : IsAlnum(name[i]) \/ name[i] = "_"
            /\ name # <<>> => name[1] # "_" /\ name[Len(name)] # "_"
            /\ actionDescription[1] = ExampleDescription =>
                   name = <<"l","o","g","_","c","a","l","l","_","c","o","m","p","a","n","y">>

\* C26: EnhancedSearchTool.search never raises.  A query whose search call
\* or result processing failed gives the ranker of search.py an empty
\* response: the ranker goes on with the next query and returns, sorted, the
\* results of the queries that did not fail.
C26_FailedQuerySkipped ==
    impl = "search" =>
        /\ ranker # "raised"
        /\ \A q \in failed : q <= Len(raw) => raw[q] = <<>>
        /\ (result # <<>> /\ result[1].status = "error") => result[1].error # "search failed"
        /\ RankerJustReturned =>
             /\ Len(SearchCalls) = Len(SearchQueries(request[1]))
             /\ ranked[1] =
                    SortedDescending(
                        Flatten([k \in 1..Len(raw) |->
                                    IF k \in failed THEN <<>> ELSE EnhancedProcessed[raw[k]]]))

\* C26 witness: the ranker of search.py returned the results of the first
\* and the third query after the second query failed.
C26_Witness ==
    /\ impl = "search"
    /\ RankerJustReturned
    /\ failed = {2}
    /\ raw[1] # <<>>
    /\ raw[3] # <<>>
    /\ Len(ranked[1]) = Len(raw[1]) + Len(raw[3])

\* C27: in an error result of create_integration of agent.py,
\* partial_results is the generated integration exactly when the failure
\* happened during save, after the generation step completed; it is None
\* when search, analysis or generation failed.
C27_PartialResultsAfterGeneration ==
    (impl = "agent" /\ pc = "done" /\ result # <<>> /\ result[1].status = "error") =>
        LET duringSave == Len(calls) = Len(StepsInOrder)
            generated ==
                Integration("agent",
                            [k \in 1..Len(LlmStages("agent")) |-> LlmText(LlmStages("agent")[k])])
        IN  /\ duringSave <=> result[1].error = "save failed"
            /\ duringSave => result[1].partial_results = generated
            /\ ~duringSave => result[1].partial_results = <<>>

\* C27 witness: create_integration of agent.py returned an error result
\* holding the generated integration, after save_integration failed with one
\* file written.
C27_Witness ==
    /\ impl = "agent"
    /\ pc = "done"
    /\ result # <<>>
    /\ result[1].status = "error"
    /\ result[1].partial_results # <<>>
    /\ Len(files) = 1

\* ------------------------------------------------------------------------
\* Properties of the batch runs (SpecTypes, SpecCreate)
\* ------------------------------------------------------------------------

\* The positions in events of the calls of one routine.
EventsOf(call) == {i \in 1..Len(events) : events[i][1] = call}

\* The rows the calls of one routine were made for, in the order of the calls.
RowsOf(call) ==
    LET made == SelectSeq(events, LAMBDA e : e[1] = call)
    IN  [i \in 1..Len(made) |-> made[i][2]]

\* C28: the type-detection run handles the selected rows one at a time in
\* sheet order; update_integration_type is called at most once for a row,
\* and only right after determine_type returned for that row; a failing
\* determine_type or update does not keep the run from the rows after it;
\* the run ends when every selected row has been handled once.
C28_RowsHandledOnceInOrder ==
    job = "types" =>
        /\ \A i, j \in 1..Len(todo) : i < j => todo[i] < todo[j]
        /\ Len(RowsOf("determine_type")) <= Len(todo)
        /\ \A k \in 1..Len(RowsOf("determine_type")) : RowsOf("determine_type")[k] = todo[k]
        /\ \A i \in EventsOf("update_integration_type") :
              /\ i > 1
              /\ events[i - 1] = <<"determine_type", events[i][2], "returned">>
        /\ \A i, j \in EventsOf("update_integration_type") : events[i][2] = events[j][2] => i = j
        /\ step # "done" =>
              Len(RowsOf("determine_type")) = IF step = "determine_type" THEN cursor - 1 ELSE cursor
        /\ step = "done" => RowsOf("determine_type") = todo

\* C28 witness: the run ended after three rows: determine_type failed for
\* the first, the update failed for the second, the third was updated.
C28_Witness ==
    /\ job = "types"
    /\ step = "done"
    /\ Len(todo) = 3
    /\ events = << <<"determine_type", todo[1], "raised">>,
                   <<"determine_type", todo[2], "returned">>,
                   <<"update_integration_type", todo[2], "raised">>,
                   <<"determine_type", todo[3], "returned">>,
                   <<"update_integration_type", todo[3], "returned">> >>

\* C29: in the creation run mark_row_complete is called for a row only if
\* the row was unprocessed (at least four cells, the first empty or "FALSE")
\* and only after create_integration returned status "success" for it; a row
\* whose creation returned status "error" or raised is never marked; and the
\* run goes on to the rows after it.
C29_MarkedOnlyAfterSuccess ==
    job = "create" =>
        /\ \A i \in EventsOf("mark_row_complete") :
              LET n == events[i][2]
                  cells == sheet[n - 1]
              IN  /\ Len(cells) >= 4
                  /\ cells[1] = <<>> \/ cells[1] = <<"F","A","L","S","E">>
                  /\ \E j \in 1..(i - 1) : events[j] = <<"create_integration", n, "success">>
        /\ \A j \in EventsOf("create_integration") :
              events[j][3] \in {"error", "raised"} =>
                  \A i \in EventsOf("mark_row_complete") : events[i][2] # events[j][2]
        /\ Len(RowsOf("create_integration")) <= Len(todo)
        /\ \A k \in 1..Len(RowsOf("create_integration")) : RowsOf("create_integration")[k] = todo[k]
        /\ step = "done" => RowsOf("create_integration") = todo

\* C29 witness: the run ended after the creation raised for its first row,
\* returned status "error" for the second, and the third row was marked
\* after status "success".
C29_Witness ==
    /\ job = "create"
    /\ step = "done"
    /\ Len(todo) = 3
    /\ events[1] = <<"create_integration", todo[1], "raised">>
    /\ events[2] = <<"create_integration", todo[2], "error">>
    /\ events[3] = <<"create_integration", todo[3], "success">>
    /\ events[Len(events)] = <<"mark_row_complete", todo[3], "returned">>

\* ------------------------------------------------------------------------
\* Properties of the richer scorer's context (SpecScore)
\* ------------------------------------------------------------------------

\* C30: in the richer scorer a non-empty context without service_name,
\* integration_type and keywords contributes nothing: every score computed
\* with it equals the score computed with no context.
C30_ContextWithoutFieldsAddsNothing ==
    (scorer = "enhanced" /\ Truthy(context)
        /\ DOMAIN context[1] \cap {"service_name", "integration_type", "keywords"} = {}) =>
        \A c \in scored : c.score = EnhancedCalculateRelevance(HitOf(c), <<>>)

====
